---- MODULE Spec2Model ----
(***************************************************************************)
(* Model of the fact-judging engine of inozemtsev/test_task:               *)
(*   app/backend/services/judge_service.py   (run_judge and its helpers)   *)
(*   app/backend/services/metrics_service.py (compute_metrics and others)  *)
(*                                                                         *)
(* A state is one invocation of run_judge in progress: its raw inputs, the *)
(* answers the evaluator has given so far, the normalized fact lists,      *)
(* the asyncio tasks of the two gather calls with the semaphore they       *)
(* share, the collected decisions and the returned payload.  Fact          *)
(* descriptions and the free-text reasoning of a verdict carry no label    *)
(* information and are left out of the records.                            *)
(***************************************************************************)
EXTENDS Integers, Sequences, FiniteSets, TLC

\* ------------------------------------------------------------------ bounds
\* Most per-run metrics handed to aggregate_metrics, and the largest count
\* in one of them.
MaxRuns == 2
\* Most extraction outputs handed to calculate_schema_stability.
MaxOutputs == 3
\* Depth of recursion at which Python gives up with RecursionError; every
\* schema checked that is not circular stays below it.
MaxRecursion == 6
\* Most nodes (dicts, lists and scalars) of an extracted document.
MaxNodes == 4
\* Longest raw list handed to _normalize_facts on its own.
MaxRawLen == 3
MaxCount == 2
\* Most raw facts, gold and predicted together, of the any-verdict inputs.
MaxFacts == 4
\* The same for the inputs run_judge is invoked with again and again.
MaxRerunFacts == 3
\* The same for the inputs judged under changing configurations.
MaxConfigFacts == 2
\* Longest raw list of the many-facts inputs (more facts than permits).
MaxMany == 5
\* Longest raw list of the inputs whose runs are followed to their end.
MaxLive == 5
\* Stream requests for the progress of one evaluation.
MaxConsumers == 3

\* ------------------------------------------------------- program constants
JUDGE_PARALLELISM == 4

\* None, a missing key and the empty string are all falsy in the source's
\* tests (`x or default`, `if not x`, `and matched_pred`).
None == ""

ENTITY_TYPE_ALIASES ==
    [t \in {"asset", "assets", "saving_investment", "savings", "protection_policy",
            "property", "properties", "client", "clients",
            "debt", "debts", "liability", "liabilities", "liability_except_mortgage",
            "income", "incomes", "expense", "expenses", "pension", "pensions",
            "account", "accounts", "investment_account", "position", "positions"} |->
        CASE t \in {"asset", "assets", "saving_investment", "savings", "protection_policy"} -> "asset"
          [] t \in {"property", "properties"} -> "property"
          [] t \in {"client", "clients"} -> "client"
          [] t \in {"debt", "debts", "liability", "liabilities", "liability_except_mortgage"} -> "debt"
          [] t \in {"income", "incomes"} -> "income"
          [] t \in {"expense", "expenses"} -> "expense"
          [] t \in {"pension", "pensions"} -> "pension"
          [] t \in {"account", "accounts", "investment_account"} -> "account"
          [] OTHER -> "position"]

\* str.strip().lower() on the raw type strings the inputs are drawn from.
StripLower(s) ==
    CASE s = "Assets" -> "assets"
      [] s = " debts " -> "debts"
      [] s = "  " -> ""
      [] OTHER -> s

normalize_entity_type(entity_type) ==
    IF entity_type = None THEN "unknown"
    ELSE LET normalized == StripLower(entity_type)
         IN  IF normalized \in DOMAIN ENTITY_TYPE_ALIASES
             THEN ENTITY_TYPE_ALIASES[normalized]
             ELSE normalized

\* allowed_entity_types of run_judge: the normalized, non-empty entries of
\* judge_config["entity_types"].
allowed_entity_types(entity_types) ==
    {normalize_entity_type(entity_types[i]) :
        i \in {j \in 1..Len(entity_types) : entity_types[j] # None}}

\* ------------------------------------------------------------ normalization
RECURSIVE FreeSuffix(_, _, _)
\* the while loop of _normalize_facts: the first suffix whose id is unused
FirstSuffix(fact_id, suffix, seen_ids) == fact_id \o "_" \o ToString(suffix)

FreeSuffix(fact_id, suffix, seen_ids) ==
    IF (fact_id \o "_" \o ToString(suffix)) \in seen_ids
    THEN FreeSuffix(fact_id, suffix + 1, seen_ids)
    ELSE fact_id \o "_" \o ToString(suffix)

\* An entry of the raw list that is not a dict (a string, a number, None):
\* `if not isinstance(raw, dict): continue`.
NotADict == [id |-> None, fact_type |-> "<not a dict>"]
IsDict(raw) == raw # NotADict

\* One iteration of the loop of _normalize_facts for the raw entry at idx.
NormalizeOne(raw, prefix, idx, allowed, seen_ids) ==
    LET base      == IF raw.id # None THEN raw.id ELSE prefix \o ToString(idx)
        fact_id   == IF base \in seen_ids THEN FreeSuffix(base, 1, seen_ids) ELSE base
        type_val  == IF raw.fact_type # None THEN raw.fact_type ELSE "unknown"
        fact_type == normalize_entity_type(type_val)
        in_scope  == IF allowed # {} THEN fact_type \in allowed ELSE TRUE
    IN  [id |-> fact_id, fact_type |-> fact_type, in_scope |-> in_scope,
         matched_ids |-> <<>>, status |-> "UNJUDGED"]

RECURSIVE NormalizeFrom(_, _, _, _, _)
NormalizeFrom(raw_facts, prefix, allowed, idx, normalized) ==
    IF idx > Len(raw_facts) THEN normalized
    ELSE IF ~IsDict(raw_facts[idx])
    THEN NormalizeFrom(raw_facts, prefix, allowed, idx + 1, normalized)
    ELSE LET seen_ids == {normalized[i].id : i \in 1..Len(normalized)}
             fact == NormalizeOne(raw_facts[idx], prefix, idx, allowed, seen_ids)
         IN  NormalizeFrom(raw_facts, prefix, allowed, idx + 1, Append(normalized, fact))

\* _normalize_facts: the normalized list (first component of its result)
normalize_facts(raw_facts, prefix, allowed) ==
    NormalizeFrom(raw_facts, prefix, allowed, 1, <<>>)

\* second component: the in-scope facts, in input order
Scoped(normalized) == SelectSeq(normalized, LAMBDA f : f.in_scope)

\* variant: the positions are counted from the end of the list
OrderMapFromEnd(normalized) ==
    [id \in {normalized[i].id : i \in 1..Len(normalized)} |->
        Len(normalized) - (CHOOSE i \in 1..Len(normalized) : normalized[i].id = id)]

\* third component: order_map[fact_id] = len(order_map) at insertion
OrderMap(normalized) ==
    [id \in {normalized[i].id : i \in 1..Len(normalized)} |->
        (CHOOSE i \in 1..Len(normalized) : normalized[i].id = id) - 1]

\* gold_map / predicted_map: id -> fact
FactMap(normalized) ==
    [id \in {normalized[i].id : i \in 1..Len(normalized)} |->
        normalized[CHOOSE i \in 1..Len(normalized) : normalized[i].id = id]]

Ids(facts) == {facts[i].id : i \in 1..Len(facts)}

\* ------------------------------------------------------------ small helpers
\* dict.get(key, default)
Get(map, key, default) == IF key \in DOMAIN map THEN map[key] ELSE default

\* the entries of seq that satisfy Keep, in order (Keep is a set of entries)
Filter(seq, Keep) == SelectSeq(seq, LAMBDA x : x \in Keep)

\* sorted(): insert x behind every entry whose key is not larger (stable)
InsertSorted(sorted, x, key) ==
    LET n == Cardinality({i \in 1..Len(sorted) : key[sorted[i]] <= key[x]})
    IN  SubSeq(sorted, 1, n) \o <<x>> \o SubSeq(sorted, n + 1, Len(sorted))

RECURSIVE SortedByKey(_, _)
\* sorted(seq, key=...): stable, ascending; key is a function on the entries
SortedByKey(seq, key) ==
    IF seq = <<>> THEN <<>>
    ELSE InsertSorted(SortedByKey(SubSeq(seq, 1, Len(seq) - 1), key), seq[Len(seq)], key)

\* every order in which iterating a set can yield its elements
Enumerations(S) ==
    {f \in [1..Cardinality(S) -> S] : \A i, j \in 1..Cardinality(S) : i # j => f[i] # f[j]}

\* ------------------------------------------------------------ reconciliation
\* decision.get("status", default) / decision.get("matched_..._id") of
\* gold_decisions.get(id, {}) and predicted_decisions.get(id, {})
DecisionOf(decisions, id, default_status) ==
    Get(decisions, id, [status |-> default_status, matched |-> None])

\* gold_initial_status and gold_declared_match after the first loop
InitialStatus(scoped, decisions, default_status) ==
    [id \in Ids(scoped) |-> DecisionOf(decisions, id, default_status).status]

DeclaredMatch(scoped, decisions, default_status) ==
    [id \in Ids(scoped) |-> DecisionOf(decisions, id, default_status).matched]

\* variant: the scope of the declared counterpart is not looked at
LinkableIgnoringScope(matched, other_map) ==
    /\ matched # None
    /\ matched \in DOMAIN other_map

\* a declared counterpart is linked only if it exists on the other side and
\* is in scope there
Linkable(matched, other_map) ==
    /\ matched # None
    /\ matched \in DOMAIN other_map
    /\ other_map[matched].in_scope

\* match_links after the two loops over the scoped facts
DeclaredLinks(scoped_gold, scoped_pred, gold_decisions, predicted_decisions, gold_map, predicted_map) ==
    {<<gid, DecisionOf(gold_decisions, gid, "FN").matched>> :
        gid \in {g \in Ids(scoped_gold) :
                    /\ DecisionOf(gold_decisions, g, "FN").status = "TP"
                    /\ Linkable(DecisionOf(gold_decisions, g, "FN").matched, predicted_map)}}
    \cup
    {<<DecisionOf(predicted_decisions, pid, "FP").matched, pid>> :
        pid \in {p \in Ids(scoped_pred) :
                    /\ DecisionOf(predicted_decisions, p, "FP").status = "TP"
                    /\ Linkable(DecisionOf(predicted_decisions, p, "FP").matched, gold_map)}}

Note(kind, gid, pid) == [kind |-> kind, gid |-> gid, pid |-> pid]

\* variant: the test reads the wrong label
PromotionOnTP(gid, gold_status) ==
    gid \in DOMAIN gold_status /\ gold_status[gid] = "TP"

\* The promotion test: the declared gold fact was judged and is still FN.
PromotionApplies(gid, gold_status) ==
    gid \in DOMAIN gold_status /\ gold_status[gid] = "FN"

RECURSIVE Promotion(_, _, _, _, _)
\* the loop over predicted_initial_status.items(); st carries match_links,
\* gold_initial_status and dedup_notes
Promotion(i, scoped_pred, predicted_status, predicted_declared, st) ==
    IF i > Len(scoped_pred) THEN st
    ELSE LET pid == scoped_pred[i].id
             gid == predicted_declared[pid]
         IN  IF predicted_status[pid] = "TP" /\ gid # None
                /\ PromotionApplies(gid, st.gold_status)
             THEN Promotion(i + 1, scoped_pred, predicted_status, predicted_declared,
                     [st EXCEPT !.links = @ \cup {<<gid, pid>>},
                                !.gold_status[gid] = "TP",
                                !.notes = Append(@, Note("promoted", gid, pid))])
             ELSE Promotion(i + 1, scoped_pred, predicted_status, predicted_declared, st)

\* variant: the test compares the predicted status with the gold-side label
DowngradeOnFN(gid, matched_pid, gold_status, predicted_status) ==
    /\ matched_pid # None
    /\ Get(gold_status, gid, None) = "TP"
    /\ Get(predicted_status, matched_pid, None) = "FN"

\* The downgrade test: the gold fact counts as TP and the predicted fact it
\* declared labeled itself FP.
DowngradeApplies(gid, matched_pid, gold_status, predicted_status) ==
    /\ matched_pid # None
    /\ Get(gold_status, gid, None) = "TP"
    /\ Get(predicted_status, matched_pid, None) = "FP"

\* variant: the downgrade drops every link of the gold fact
DowngradedLinksOfGold(links, gid, matched_pid) == {link \in links : link[1] # gid}

\* match_links after the downgrade of gid: the one link to the predicted
\* fact it declared is removed
DowngradedLinks(links, gid, matched_pid) == links \ {<<gid, matched_pid>>}

RECURSIVE Downgrade(_, _, _, _, _)
\* variant: the loop ends with the first gold fact it downgrades
DowngradeOnce(i, scoped_gold, gold_declared, predicted_status, st) ==
    IF i > Len(scoped_gold) THEN st
    ELSE LET gid == scoped_gold[i].id
             matched_pid == gold_declared[gid]
         IN  IF DowngradeApplies(gid, matched_pid, st.gold_status, predicted_status)
             THEN [st EXCEPT !.links = DowngradedLinks(@, gid, matched_pid),
                             !.gold_status[gid] = "FN",
                             !.notes = Append(@, Note("downgraded", gid, matched_pid))]
             ELSE Downgrade(i + 1, scoped_gold, gold_declared, predicted_status, st)

\* the loop over gold_declared_match.items()
Downgrade(i, scoped_gold, gold_declared, predicted_status, st) ==
    IF i > Len(scoped_gold) THEN st
    ELSE LET gid == scoped_gold[i].id
             matched_pid == gold_declared[gid]
         IN  IF DowngradeApplies(gid, matched_pid, st.gold_status, predicted_status)
             THEN Downgrade(i + 1, scoped_gold, gold_declared, predicted_status,
                     [st EXCEPT !.links = DowngradedLinks(@, gid, matched_pid),
                                !.gold_status[gid] = "FN",
                                !.notes = Append(@, Note("downgraded", gid, matched_pid))])
             ELSE Downgrade(i + 1, scoped_gold, gold_declared, predicted_status, st)

\* gold_to_pred: the keys in first-insertion order, and the list of one key,
\* both as the iteration `order` of match_links yields them
RECURSIVE FirstOccurrences(_)
FirstOccurrences(seq) ==
    IF seq = <<>> THEN <<>>
    ELSE LET front == FirstOccurrences(SubSeq(seq, 1, Len(seq) - 1))
             x == seq[Len(seq)]
         IN  IF \E i \in 1..Len(front) : front[i] = x THEN front ELSE Append(front, x)

GoldToPredKeys(order) == FirstOccurrences([k \in 1..Len(order) |-> order[k][1]])

PidList(order, gid) ==
    LET mine == SelectSeq(order, LAMBDA l : l[1] = gid)
    IN  [k \in 1..Len(mine) |-> mine[k][2]]

\* variant: every key is the default, the sort keeps the iteration order
CollapseKeyDefault(pids, predicted_order) == [pid \in pids |-> 0]

\* key=lambda pid: predicted_order.get(pid, 0) of the fan-out collapse
CollapseKey(pids, predicted_order) ==
    [pid \in pids |-> Get(predicted_order, pid, 0)]

\* variant: the length test off by one, a list of two is left alone
CollapseLosersOffByOne(pid_list, predicted_order) ==
    LET pids == {pid_list[k] : k \in 1..Len(pid_list)}
        sorted_pids == SortedByKey(pid_list, [pid \in pids |-> Get(predicted_order, pid, 0)])
    IN  IF Len(pid_list) <= 2 THEN <<>> ELSE SubSeq(sorted_pids, 2, Len(sorted_pids))

\* sorted_pids[1:] : the predicted facts that lose their link to gid
CollapseLosers(pid_list, predicted_order) ==
    LET pids == {pid_list[k] : k \in 1..Len(pid_list)}
        sorted_pids == SortedByKey(pid_list, CollapseKey(pids, predicted_order))
    IN  IF Len(pid_list) <= 1 THEN <<>> ELSE SubSeq(sorted_pids, 2, Len(sorted_pids))

RECURSIVE DropLosers(_, _, _, _)
\* the inner loop over sorted_pids[1:]
DropLosers(k, gid, losers, st) ==
    IF k > Len(losers) THEN st
    ELSE DropLosers(k + 1, gid, losers,
            [st EXCEPT !.links = @ \ {<<gid, losers[k]>>},
                       !.pred_status[losers[k]] = "FP",
                       !.notes = Append(@, Note("collapsed", gid, losers[k]))])

RECURSIVE Collapse(_, _, _, _, _)
\* the loop over gold_to_pred.items()
Collapse(i, keys, order, predicted_order, st) ==
    IF i > Len(keys) THEN st
    ELSE Collapse(i + 1, keys, order, predicted_order,
            DropLosers(1, keys[i],
                       CollapseLosers(PidList(order, keys[i]), predicted_order), st))

\* variant: a lookup keeps one id per fact
MatchLookupOfOne(order, links, mine, theirs, their_order) ==
    [id \in {l[mine] : l \in links} |->
        <<(CHOOSE l \in links : l[mine] = id)[theirs]>>]

\* gold_match_lookup (mine = 1) / predicted_match_lookup (mine = 2): filled in
\* the iteration order of match_links, each list then sorted by the other
\* side's order_map (float("inf") for an id the map lacks: here one more than
\* any position).
MatchLookup(order, links, mine, theirs, their_order) ==
    [id \in {l[mine] : l \in links} |->
        LET left == SelectSeq(order, LAMBDA l : l \in links /\ l[mine] = id)
            matches == [k \in 1..Len(left) |-> left[k][theirs]]
            key == [x \in {matches[k] : k \in 1..Len(matches)} |->
                        Get(their_order, x, Cardinality(DOMAIN their_order))]
        IN  SortedByKey(matches, key)]

\* variant: a fact without matches keeps the status the normalizer gave it
FinalStatusKeepsInitial(matches, miss) == IF matches # <<>> THEN "TP" ELSE "UNJUDGED"

\* "TP" if matches else "FN" / "FP"
FinalStatus(matches, miss) == IF matches # <<>> THEN "TP" ELSE miss

\* variant: an out-of-scope fact is copied as normalized
FinalFactSkipsOutOfScope(fact, lookup, miss) ==
    IF ~fact.in_scope
    THEN fact
    ELSE [fact EXCEPT !.matched_ids = Get(lookup, fact.id, <<>>),
                      !.status = IF Get(lookup, fact.id, <<>>) # <<>> THEN "TP" ELSE miss]

\* One entry of final_gold (miss = "FN") / final_predicted (miss = "FP")
FinalFact(fact, lookup, miss) ==
    IF ~fact.in_scope
    THEN [fact EXCEPT !.status = miss, !.matched_ids = <<>>]
    ELSE [fact EXCEPT !.matched_ids = Get(lookup, fact.id, <<>>),
                      !.status = FinalStatus(Get(lookup, fact.id, <<>>), miss)]

FinalFacts(normalized, lookup, miss) ==
    [i \in 1..Len(normalized) |-> FinalFact(normalized[i], lookup, miss)]

\* Lines 383-447 of run_judge: the declared links, then promotion, then
\* downgrade.  The result carries match_links, the two status maps and
\* dedup_notes as they stand before the fan-out collapse.
ReconcilePasses(gold_norm, pred_norm, gold_decisions, predicted_decisions) ==
    LET scoped_gold == Scoped(gold_norm)
        scoped_pred == Scoped(pred_norm)
        predicted_status == InitialStatus(scoped_pred, predicted_decisions, "FP")
        st0 == [links |-> DeclaredLinks(scoped_gold, scoped_pred, gold_decisions,
                                        predicted_decisions,
                                        FactMap(gold_norm), FactMap(pred_norm)),
                gold_status |-> InitialStatus(scoped_gold, gold_decisions, "FN"),
                pred_status |-> predicted_status,
                notes |-> <<>>]
        st1 == Promotion(1, scoped_pred, predicted_status,
                         DeclaredMatch(scoped_pred, predicted_decisions, "FP"), st0)
    IN  Downgrade(1, scoped_gold, DeclaredMatch(scoped_gold, gold_decisions, "FN"),
                  predicted_status, st1)

\* Lines 449-524 of run_judge: fan-out collapse, the lookups and the final
\* fact lists.  `order` is the order in which iterating the set match_links
\* yields its elements (list(match_links)); removing an element leaves the
\* order of the others as it was.
AssembleResult(gold_norm, pred_norm, st2, order) ==
    LET gold_order == OrderMap(gold_norm)
        predicted_order == OrderMap(pred_norm)
        st3 == Collapse(1, GoldToPredKeys(order), order, predicted_order, st2)
        left == Filter(order, st3.links)
    IN  [gold_facts |-> FinalFacts(gold_norm,
                MatchLookup(left, st3.links, 1, 2, predicted_order), "FN"),
         predicted_facts |-> FinalFacts(pred_norm,
                MatchLookup(left, st3.links, 2, 1, gold_order), "FP"),
         notes |-> st3.notes]

\* ------------------------------------------------------------------ metrics
RECURSIVE Gcd(_, _)
Gcd(a, b) == IF b = 0 THEN a ELSE Gcd(b, a % b)

\* A float quotient of two small counts, kept exact as a reduced fraction
\* <<numerator, denominator>>: two such quotients are the same float exactly
\* when they are the same fraction.
\* A division by zero raises ZeroDivisionError instead of returning a float.
ZeroDivisionError == <<0, 0>>
Ratio(n, d) == IF d = 0 THEN ZeroDivisionError ELSE <<n \div Gcd(n, d), d \div Gcd(n, d)>>
Zero == Ratio(0, 1)
One == Ratio(1, 1)

CountStatusInScopeOnly(facts, status) ==
    Cardinality({i \in 1..Len(facts) : facts[i].status = status /\ facts[i].in_scope})

count_status(facts, status) ==
    Cardinality({i \in 1..Len(facts) :
        facts[i].status = status /\ (facts[i].in_scope \/ status = "FP")})

PrecisionUnguarded(tp_count, fp_count) == Ratio(tp_count, tp_count + fp_count)

compute_precision(tp_count, fp_count) ==
    IF tp_count + fp_count = 0 THEN Zero ELSE Ratio(tp_count, tp_count + fp_count)

compute_recall(tp_count, fn_count) ==
    IF tp_count + fn_count = 0 THEN Zero ELSE Ratio(tp_count, tp_count + fn_count)

\* 2 * (p * r) / (p + r) on fractions p = a/b, r = c/d
compute_f1(precision, recall) ==
    LET a == precision[1]
        b == precision[2]
        c == recall[1]
        d == recall[2]
    IN  IF a * d + c * b = 0 THEN Zero ELSE Ratio(2 * a * c, a * d + c * b)

compute_metrics(judge_result) ==
    LET tp_count == count_status(judge_result.gold_facts, "TP")
        fp_count == count_status(judge_result.predicted_facts, "FP")
        fn_count == count_status(judge_result.gold_facts, "FN")
        precision == compute_precision(tp_count, fp_count)
        recall == compute_recall(tp_count, fn_count)
    IN  [precision |-> precision, recall |-> recall,
         f1 |-> compute_f1(precision, recall),
         tp_count |-> tp_count, fp_count |-> fp_count, fn_count |-> fn_count,
         hallucination_rate |-> Ratio(precision[2] - precision[1], precision[2]),
         coverage |-> recall]

compute_confusion_matrix(judge_result) ==
    [TP |-> count_status(judge_result.predicted_facts, "TP"),
     FP |-> count_status(judge_result.predicted_facts, "FP"),
     FN |-> count_status(judge_result.gold_facts, "FN"),
     TN |-> 0]

\* the ComputedMetrics that compute_metrics builds from the three counts
ComputedMetrics(tp_count, fp_count, fn_count) ==
    LET precision == compute_precision(tp_count, fp_count)
        recall == compute_recall(tp_count, fn_count)
    IN  [precision |-> precision, recall |-> recall,
         f1 |-> compute_f1(precision, recall),
         tp_count |-> tp_count, fp_count |-> fp_count, fn_count |-> fn_count,
         hallucination_rate |-> Ratio(precision[2] - precision[1], precision[2]),
         coverage |-> recall]

\* sum(m.<key> for m in metrics_list)
RECURSIVE SumOf(_, _)
SumOf(metrics_list, key) ==
    IF metrics_list = <<>> THEN 0
    ELSE Head(metrics_list)[key] + SumOf(Tail(metrics_list), key)

\* a + b and the mean of a list of fractions
Plus(p, q) == Ratio(p[1] * q[2] + q[1] * p[2], p[2] * q[2])

RECURSIVE MeanFrom(_, _, _, _)
MeanFrom(metrics_list, key, k, acc) ==
    IF k > Len(metrics_list) THEN Ratio(acc[1], acc[2] * Len(metrics_list))
    ELSE MeanFrom(metrics_list, key, k + 1, Plus(acc, metrics_list[k][key]))

MeanOf(metrics_list, key) == MeanFrom(metrics_list, key, 1, Zero)

\* the ratios averaged over the runs instead of recomputed from the sums
AggregateMeanOfRatios(metrics_list) ==
    IF metrics_list = <<>>
    THEN [precision |-> Zero, recall |-> Zero, f1 |-> Zero,
          tp_count |-> 0, fp_count |-> 0, fn_count |-> 0,
          hallucination_rate |-> One, coverage |-> Zero]
    ELSE LET precision == MeanOf(metrics_list, "precision")
             recall == MeanOf(metrics_list, "recall")
         IN  [precision |-> precision, recall |-> recall,
              f1 |-> MeanOf(metrics_list, "f1"),
              tp_count |-> SumOf(metrics_list, "tp_count"),
              fp_count |-> SumOf(metrics_list, "fp_count"),
              fn_count |-> SumOf(metrics_list, "fn_count"),
              hallucination_rate |-> Ratio(precision[2] - precision[1], precision[2]),
              coverage |-> recall]

aggregate_metrics(metrics_list) ==
    IF metrics_list = <<>>
    THEN [precision |-> Zero, recall |-> Zero, f1 |-> Zero,
          tp_count |-> 0, fp_count |-> 0, fn_count |-> 0,
          hallucination_rate |-> One, coverage |-> Zero]
    ELSE LET total_tp == SumOf(metrics_list, "tp_count")
             total_fp == SumOf(metrics_list, "fp_count")
             total_fn == SumOf(metrics_list, "fn_count")
             precision == compute_precision(total_tp, total_fp)
             recall == compute_recall(total_tp, total_fn)
         IN  [precision |-> precision, recall |-> recall,
              f1 |-> compute_f1(precision, recall),
              tp_count |-> total_tp, fp_count |-> total_fp, fn_count |-> total_fn,
              hallucination_rate |-> Ratio(precision[2] - precision[1], precision[2]),
              coverage |-> recall]

\* ------------------------------------------------------------- JSON values
\* What json.loads returns and what an extraction holds: dicts, lists and
\* scalars.  Every value is a record of one shape; `map` is the content of
\* a dict, `items` of a list, `value` of a string, and `id` tells the dicts
\* of one parsed document apart (Python's id(obj)).
NoKeys == [k \in {} |-> 0]
NoId == ""
Scalar(kind, value) == [kind |-> kind, map |-> NoKeys, items |-> <<>>, value |-> value, id |-> NoId]
Number == Scalar("number", "")
Null == Scalar("null", "")
Str(value) == Scalar("str", value)
Dict(map) == [kind |-> "dict", map |-> map, items |-> <<>>, value |-> "", id |-> NoId]
List(items) == [kind |-> "list", map |-> NoKeys, items |-> items, value |-> "", id |-> NoId]
EmptyDict == Dict(NoKeys)
EmptyList == List(<<>>)

IsDictValue(v) == v.kind = "dict"
IsListValue(v) == v.kind = "list"
\* `key in d` and d.get(key) of a dict
HasKey(d, key) == key \in DOMAIN d.map

\* ---------------------------------------------------------- schema_utils.py
RECURSIVE flatten_dict_keys(_, _)
flatten_dict_keys(d, parent_key) ==
    IF IsDictValue(d)
    THEN UNION {
            LET v == d.map[k]
                new_key == IF parent_key # "" THEN parent_key \o "." \o k ELSE k
            IN  IF IsDictValue(v) /\ DOMAIN v.map # {}
                THEN flatten_dict_keys(v, new_key)
                ELSE IF IsListValue(v)
                THEN IF v.items = <<>>
                     THEN {new_key \o "[]"}
                     ELSE UNION {flatten_dict_keys(v.items[i], new_key \o "[]") : i \in DOMAIN v.items}
                ELSE {new_key}
            : k \in DOMAIN d.map}
    ELSE IF IsListValue(d)
    THEN UNION {flatten_dict_keys(d.items[i], IF parent_key # "" THEN parent_key \o "[]" ELSE "[]")
                : i \in DOMAIN d.items}
    ELSE IF parent_key # "" THEN {parent_key} ELSE {}

\* What a step of get_schema_fields yields: a value, or an exception on its
\* way to the `except Exception` of get_schema_fields.
Raised == [raised |-> TRUE, value |-> EmptyDict, fields |-> {}]
Value(v) == [raised |-> FALSE, value |-> v, fields |-> {}]
Fields(paths) == [raised |-> FALSE, value |-> EmptyDict, fields |-> paths]

\* the union of the field sets of several steps, unless one of them raised
AllFields(steps) ==
    IF \E step \in steps : step.raised THEN Raised
    ELSE Fields(UNION {step.fields : step \in steps})

\* json.loads gives every dict of the document an identity of its own:
\* here the path that leads to it.
RECURSIVE Located(_, _)
Located(v, at) ==
    IF IsDictValue(v)
    THEN [v EXCEPT !.id = at,
                   !.map = [k \in DOMAIN v.map |-> Located(v.map[k], at \o "/" \o k)]]
    ELSE IF IsListValue(v)
    THEN [v EXCEPT !.items = [i \in DOMAIN v.items |->
                                 Located(v.items[i], at \o "/" \o ToString(i - 1))]]
    ELSE v

JsonLoadsLenient(schema_json) == Value(Located(schema_json.document, "#"))

\* json.loads(schema_json): raises on a text that is not JSON
json_loads(schema_json) ==
    IF schema_json.well_formed THEN Value(Located(schema_json.document, "#")) ELSE Raised

\* ref_path.startswith("#/") and ref_path[2:].split("/") for the reference
\* strings that occur in the schemas checked
StartsWithHashSlash(ref_path) ==
    ref_path \in {"#/definitions/Leaf", "#/definitions/Item", "#/definitions/Node",
                  "#/definitions/Loop", "#/definitions/Missing", "#/definitions"}

SplitRef(ref_path) ==
    CASE ref_path = "#/definitions/Leaf" -> <<"definitions", "Leaf">>
      [] ref_path = "#/definitions/Item" -> <<"definitions", "Item">>
      [] ref_path = "#/definitions/Node" -> <<"definitions", "Node">>
      [] ref_path = "#/definitions/Loop" -> <<"definitions", "Loop">>
      [] ref_path = "#/definitions/Missing" -> <<"definitions", "Missing">>
      [] ref_path = "#/definitions" -> <<"definitions">>

\* the loop over the parts of a reference, with its early `return {}`
RECURSIVE FollowParts(_, _)
FollowParts(current, parts) ==
    IF parts = <<>> THEN current
    ELSE IF IsDictValue(current) /\ HasKey(current, Head(parts))
    THEN FollowParts(current.map[Head(parts)], Tail(parts))
    ELSE EmptyDict

resolve_ref(ref, root_schema) ==
    IF ref.kind # "str" THEN Raised
    ELSE IF ~StartsWithHashSlash(ref.value) THEN Value(EmptyDict)
    ELSE LET current == FollowParts(root_schema, SplitRef(ref.value))
         IN  IF IsDictValue(current) THEN Value(current) ELSE Value(EmptyDict)

\* dict.update(other): a dict is merged in, an empty list or string adds
\* nothing, anything else is no mapping and no sequence of pairs and raises
Update(map, other) ==
    IF IsDictValue(other)
    THEN Value(Dict([k \in DOMAIN map \cup DOMAIN other.map |->
                        IF k \in DOMAIN other.map THEN other.map[k] ELSE map[k]]))
    ELSE IF (IsListValue(other) /\ other.items = <<>>) \/ other = Str("")
    THEN Value(Dict(map))
    ELSE Raised

\* d with d[key] = v
WithKey(map, key, v) == [k \in DOMAIN map \cup {key} |-> IF k = key THEN v ELSE map[k]]

\* one iteration of the loop of merge_schemas
MergeOne(merged, s) ==
    IF ~IsDictValue(s) THEN Value(merged)
    ELSE LET properties ==
                 IF ~HasKey(s, "properties") THEN Value(merged)
                 ELSE LET mine == IF HasKey(merged, "properties")
                                  THEN merged.map["properties"].map ELSE NoKeys
                          updated == Update(mine, s.map["properties"])
                      IN  IF updated.raised THEN Raised
                          ELSE Value(Dict(WithKey(merged.map, "properties", updated.value)))
         IN  IF properties.raised THEN Raised
             ELSE IF HasKey(s, "type") /\ ~HasKey(properties.value, "type")
             THEN Value(Dict(WithKey(properties.value.map, "type", s.map["type"])))
             ELSE properties

RECURSIVE MergeFrom(_, _)
MergeFrom(merged, schemas) ==
    IF schemas = <<>> THEN Value(merged)
    ELSE LET next == MergeOne(merged, Head(schemas))
         IN  IF next.raised THEN Raised ELSE MergeFrom(next.value, Tail(schemas))

merge_schemas(schemas) == MergeFrom(EmptyDict, schemas)

\* `for item in v` keeping the dicts: a list yields its items, a dict its
\* keys and a string its characters (no dicts among them), and a number,
\* a boolean or null is not iterable
DictItemsOf(v) ==
    IF IsListValue(v) THEN [raised |-> FALSE, items |-> SelectSeq(v.items, IsDictValue)]
    ELSE IF IsDictValue(v) \/ v.kind = "str" THEN [raised |-> FALSE, items |-> <<>>]
    ELSE [raised |-> TRUE, items |-> <<>>]

\* d.get("type") == text
TypeIs(d, text) == HasKey(d, "type") /\ d.map["type"] = Str(text)

\* the items of allOf with their references resolved
RECURSIVE ResolveItems(_, _)
ResolveItems(items, schema) ==
    IF items = <<>> THEN [raised |-> FALSE, items |-> <<>>]
    ELSE LET item == Head(items)
             first == IF HasKey(item, "$ref") THEN resolve_ref(item.map["$ref"], schema)
                      ELSE Value(item)
             rest == ResolveItems(Tail(items), schema)
         IN  IF first.raised \/ rest.raised THEN [raised |-> TRUE, items |-> <<>>]
             ELSE [raised |-> FALSE, items |-> <<first.value>> \o rest.items]

\* {**ref_schema, **{k: v for k, v in prop_schema.items() if k != "$ref"}}
Overlaid(ref_schema, prop_schema) ==
    Dict([k \in DOMAIN ref_schema.map \cup (DOMAIN prop_schema.map \ {"$ref"}) |->
            IF k \in DOMAIN prop_schema.map \ {"$ref"} THEN prop_schema.map[k]
            ELSE ref_schema.map[k]])

IsComplex(item) ==
    /\ ~TypeIs(item, "null")
    /\ HasKey(item, "properties") \/ HasKey(item, "allOf") \/ HasKey(item, "$ref")

RECURSIVE extract_fields(_, _, _, _, _)
RECURSIVE ExtractProperty(_, _, _, _, _)

\* the body of the loop over obj["properties"]
ExtractProperty(schema, prop_schema_in, new_key, visited, depth) ==
    IF ~IsDictValue(prop_schema_in) THEN Fields({new_key})
    ELSE LET ref_schema == IF HasKey(prop_schema_in, "$ref")
                           THEN resolve_ref(prop_schema_in.map["$ref"], schema)
                           ELSE Value(EmptyDict)
             prop_schema == IF HasKey(prop_schema_in, "$ref")
                            THEN Overlaid(ref_schema.value, prop_schema_in)
                            ELSE prop_schema_in
             has_properties == \/ HasKey(prop_schema, "properties")
                               \/ HasKey(prop_schema, "allOf")
                               \/ HasKey(prop_schema, "anyOf")
         IN  IF ref_schema.raised THEN Raised
             ELSE IF TypeIs(prop_schema, "array") /\ HasKey(prop_schema, "items")
             THEN LET array_key == new_key \o "[]"
                      items_in == prop_schema.map["items"]
                      resolved == IF IsDictValue(items_in) /\ HasKey(items_in, "$ref")
                                  THEN resolve_ref(items_in.map["$ref"], schema)
                                  ELSE Value(items_in)
                      items == resolved.value
                  IN  IF ~IsDictValue(items_in) THEN Fields({})
                      ELSE IF resolved.raised THEN Raised
                      ELSE IF \/ TypeIs(items, "object")
                              \/ HasKey(items, "properties")
                              \/ HasKey(items, "allOf")
                      THEN extract_fields(schema, items, array_key, visited, depth + 1)
                      ELSE Fields({array_key})
             ELSE IF has_properties
             THEN extract_fields(schema, prop_schema, new_key, visited, depth + 1)
             ELSE Fields({new_key})

\* extract_fields(obj, parent_key, sep, visited) of get_schema_fields, with
\* the root schema it closes over and the depth of the recursion
extract_fields(schema, obj, parent_key, visited_in, depth) ==
    IF depth > MaxRecursion THEN Raised
    ELSE IF ~IsDictValue(obj) THEN Fields({})
    ELSE IF obj.id # NoId /\ obj.id \in visited_in THEN Fields({})
    ELSE LET visited == visited_in \cup {obj.id}
         IN  IF HasKey(obj, "$ref")
             THEN LET ref_schema == resolve_ref(obj.map["$ref"], schema)
                  IN  IF ref_schema.raised THEN Raised
                      ELSE extract_fields(schema, ref_schema.value, parent_key, visited, depth + 1)
             ELSE IF HasKey(obj, "allOf")
             THEN LET items == DictItemsOf(obj.map["allOf"])
                      resolved_items == ResolveItems(items.items, schema)
                      merged == merge_schemas(resolved_items.items)
                  IN  IF items.raised \/ resolved_items.raised \/ merged.raised THEN Raised
                      ELSE extract_fields(schema, merged.value, parent_key, visited, depth + 1)
             ELSE IF HasKey(obj, "anyOf")
             THEN LET items == DictItemsOf(obj.map["anyOf"])
                      alternatives == {items.items[i] : i \in DOMAIN items.items}
                      has_complex == \E item \in alternatives : IsComplex(item)
                  IN  IF items.raised THEN Raised
                      ELSE IF has_complex
                      THEN AllFields({extract_fields(schema, item, parent_key, visited, depth + 1)
                                      : item \in {a \in alternatives : ~TypeIs(a, "null")}})
                      ELSE IF parent_key # "" THEN Fields({parent_key}) ELSE Fields({})
             ELSE IF HasKey(obj, "properties")
             THEN LET properties == obj.map["properties"]
                  IN  IF ~IsDictValue(properties) THEN Raised
                      ELSE AllFields({ExtractProperty(schema, properties.map[prop_name],
                                          IF parent_key # "" THEN parent_key \o "." \o prop_name
                                          ELSE prop_name, visited, depth)
                                      : prop_name \in DOMAIN properties.map})
             ELSE Fields({})

\* get_schema_fields: set() when anything raised
get_schema_fields(schema_json) ==
    LET schema == json_loads(schema_json)
        extracted == extract_fields(schema.value, schema.value, "", {}, 1)
    IN  IF schema.raised \/ extracted.raised THEN {} ELSE extracted.fields

\* len(a) / len(b) of two sets
Quotient(a, b) == Ratio(Cardinality(a), Cardinality(b))

JaccardSmoothed(intersection, union) == Ratio(Cardinality(intersection), Cardinality(union) + 1)

\* len(intersection) / len(union) if union else 0.0
JaccardOf(intersection, union) == IF union # {} THEN Quotient(intersection, union) ELSE Zero

\* calculate_field_overlap.  missing_fields and extra_fields are sorted
\* lists of a set of paths and are kept as that set.  The extracted data
\* is a JSON document, for which flatten_dict_keys and sorted do not raise,
\* so the function's own except clause is not entered.
calculate_field_overlap(extracted_data, schema_json) ==
    LET extracted_fields == flatten_dict_keys(extracted_data, "")
        schema_fields == get_schema_fields(schema_json)
        intersection == extracted_fields \cap schema_fields
        union == extracted_fields \cup schema_fields
    IN  IF schema_fields = {}
        THEN [jaccard |-> Zero, missing_fields |-> {}, extra_fields |-> extracted_fields,
              intersection_count |-> 0, union_count |-> Cardinality(extracted_fields)]
        ELSE [jaccard |-> JaccardOf(intersection, union),
              missing_fields |-> schema_fields \ extracted_fields,
              extra_fields |-> extracted_fields \ schema_fields,
              intersection_count |-> Cardinality(intersection),
              union_count |-> Cardinality(union)]

\* ---------------------------------------------------------- llm_service.py
SetsOf(field_sets) == {field_sets[i] : i \in DOMAIN field_sets}

AllSets(field_sets) == field_sets

\* [fs for fs in field_sets if fs]
NonEmptySets(field_sets) == SelectSeq(field_sets, LAMBDA fs : fs # {})

CommonFieldsOfAny(field_sets) == UNION SetsOf(field_sets)

\* set.intersection(*field_sets) of a non-empty list
CommonFields(field_sets) ==
    {path \in UNION SetsOf(field_sets) : \A fs \in SetsOf(field_sets) : path \in fs}

\* calculate_schema_stability.  The outputs are JSON documents, for which
\* flatten_dict_keys does not raise, so the except clause is not entered.
calculate_schema_stability(all_extracted_data) ==
    IF all_extracted_data = <<>> THEN Zero
    ELSE LET flattened == [i \in DOMAIN all_extracted_data |->
                              flatten_dict_keys(all_extracted_data[i], "")]
             field_sets == NonEmptySets(flattened)
             common_fields == CommonFields(field_sets)
             total_unique_fields == UNION SetsOf(field_sets)
         IN  IF field_sets = <<>> THEN Zero
             ELSE IF total_unique_fields = {} THEN Zero
             ELSE Quotient(common_fields, total_unique_fields)

\* -------------------------------------------------------------------- state
VARIABLES
    gold_raw,             \* gold_facts argument: list of raw fact dicts
    predicted_raw,        \* predicted_facts argument (list shape)
    entity_types,         \* judge_config["entity_types"]
    judge_config,         \* the matching-rule keys of judge_config
    evaluator,            \* the evaluator's answer to the request for a fact, once given
    pc,                   \* where run_judge stands
    gold_norm,            \* gold_facts_normalized
    pred_norm,            \* predicted_facts_normalized
    tasks,                \* the coroutines handed to the two gather calls
    permits,              \* value of the semaphore
    gold_decisions,
    predicted_decisions,
    result,               \* the payload run_judge returned, NoResult before
    metrics,              \* compute_metrics / compute_confusion_matrix of it
    completion,           \* whether a request completed before one listed ahead
                          \* of it (Untracked where no claim asks for the order)
    prev,                 \* labels and completion order of the last invocation that returned
    call,                 \* a call of one of the synchronous functions: its name and arguments
    ret,                  \* what that call returned, NoReturn before
    progress_tracker,     \* the evaluation ids the global progress_tracker has an entry for
    progress,             \* the EvaluationProgress object of the evaluation
    evaluation,           \* where run_evaluation stands
    consumers             \* the event_generator of each stream request

\* the state of run_judge and of the scoring of its result
judge == <<gold_raw, predicted_raw, entity_types, judge_config, evaluator, pc, gold_norm, pred_norm,
           tasks, permits, gold_decisions, predicted_decisions, result, metrics,
           completion, prev>>

\* the state of a call of a synchronous function
library == <<call, ret>>

\* the state of one evaluation and of the streams of its progress
stream == <<progress_tracker, progress, evaluation, consumers>>

vars == <<judge, library, stream>>

arguments == <<gold_raw, predicted_raw, entity_types, judge_config>>

inputs == <<arguments, evaluator>>

NoResult == [gold_facts |-> <<>>, predicted_facts |-> <<>>, notes |-> <<"none">>]
NoMetrics == [computed |-> FALSE]
NoPrev == [set |-> FALSE]
NoDecision == [status |-> "PENDING", matched |-> None]
NoCall == [fn |-> "none"]
NoReturn == [returned |-> FALSE]
Untracked == "untracked"
InOrder == "in_order"
Inverted == "inverted"
NoTasks == [gold |-> <<>>, predicted |-> <<>>]

\* judge_config without any matching rule set: .get() yields the defaults
DefaultConfig == [require_all_fields_match |-> FALSE, allow_partial_matches |-> TRUE]

\* matching_rules_str: the rule lines the configuration switches on
matching_rules_str(config) ==
    LET matching_rules ==
            (IF config.require_all_fields_match
             THEN <<"- ALL fields must match for a TP (strict mode)">> ELSE <<>>)
            \o (IF ~config.allow_partial_matches
                THEN <<"- Partial matches do NOT count as TP">> ELSE <<>>)
    IN  IF matching_rules # <<>> THEN matching_rules ELSE <<"- Use standard exact matching">>

\* base_config_section: the configuration text every request carries
base_config_section(types, config) ==
    [entity_types_str |-> IF types # <<>> THEN types ELSE <<"all types">>,
     matching_rules_str |-> matching_rules_str(config)]
Empty == [x \in {} |-> NoDecision]

Sides == {"gold", "predicted"}

\* status and matched_ids of every fact: the labels of a payload
Labels(payload) ==
    [gold_facts |-> payload.gold_facts, predicted_facts |-> payload.predicted_facts]

\* ------------------------------------------------------------------ actions
\* run_judge up to the first gather: inputs normalized, semaphore created.
Invoke ==
    /\ pc = "idle"
    /\ gold_norm' = normalize_facts(gold_raw, "g", allowed_entity_types(entity_types))
    /\ pred_norm' = normalize_facts(predicted_raw, "p", allowed_entity_types(entity_types))
    /\ permits' = JUDGE_PARALLELISM
    /\ tasks' = NoTasks
    /\ gold_decisions' = Empty
    /\ predicted_decisions' = Empty
    /\ result' = NoResult
    /\ metrics' = NoMetrics
    /\ completion' = IF completion = Untracked THEN Untracked ELSE InOrder
    /\ pc' = "gold"
    /\ UNCHANGED <<library, stream, inputs, prev>>

NormOf(side) == IF side = "gold" THEN gold_norm ELSE pred_norm

\* `if scoped_gold_facts:` / `if scoped_predicted_facts:` and the call of
\* asyncio.gather with one coroutine per scoped fact.
StartGather(side) ==
    /\ pc = side
    /\ IF Scoped(NormOf(side)) = <<>>
       THEN /\ pc' = IF side = "gold" THEN "predicted" ELSE "reconcile"
            /\ tasks' = tasks
       ELSE /\ pc' = "await_" \o side
            /\ tasks' = [tasks EXCEPT ![side] =
                    [i \in 1..Len(Scoped(NormOf(side))) |->
                        [st |-> "waiting", id |-> Scoped(NormOf(side))[i].id,
                         prompt |-> base_config_section(entity_types, judge_config),
                         ret |-> NoDecision]]]
    /\ UNCHANGED <<library, stream, inputs, gold_norm, pred_norm, permits, gold_decisions,
                   predicted_decisions, result, metrics, completion, prev>>

\* variant: leaving the block does not give the permit back
ReleaseLost(value) == value

\* `async with semaphore` left, by return or by exception: release()
Release(value) == value + 1

\* variant: the permit count is not looked at
SemaphoreAlwaysFree(value) == TRUE

\* semaphore.locked() is false
SemaphoreFree(value) == value > 0

\* `async with semaphore` entered: waiters are served first come first
\* served, and coroutines start in list order.
Acquire(side, i) ==
    /\ tasks[side][i].st = "waiting"
    /\ \A j \in 1..(i - 1) : tasks[side][j].st # "waiting"
    /\ SemaphoreFree(permits)
    /\ permits' = permits - 1
    /\ tasks' = [tasks EXCEPT ![side][i].st = "inflight"]
    /\ UNCHANGED <<library, stream, inputs, pc, gold_norm, pred_norm, gold_decisions,
                   predicted_decisions, result, metrics, completion, prev>>

\* The verdicts the tool schema admits: a status of the side's enum and a
\* counterpart id that is null, the id of a fact of the other side (in scope
\* or not) or an id no fact of the other side has.
GoldVerdicts(declared) == [status : {"TP", "FN"}, matched : declared]
PredictedVerdicts(declared) == [status : {"TP", "FP"}, matched : declared]

Declarable(other_norm, prefix) ==
    {None} \cup Ids(other_norm) \cup {prefix \o ToString(Len(other_norm) + 1)}

Answers(side) ==
    IF side = "gold"
    THEN GoldVerdicts(Declarable(pred_norm, "p"))
    ELSE PredictedVerdicts(Declarable(gold_norm, "g"))

Remember(answers, id, v) ==
    [x \in DOMAIN answers \cup {id} |-> IF x = id THEN v ELSE answers[x]]

\* _call_fact_tool returns the verdict; the semaphore is released.  The
\* evaluator answers a request it has answered before as it did then
\* (temperature 0, fixed seed), and a new one with any verdict.
Complete(side, i) ==
    /\ tasks[side][i].st = "inflight"
    /\ \E v \in IF tasks[side][i].id \in DOMAIN evaluator[side]
                THEN {evaluator[side][tasks[side][i].id]}
                ELSE Answers(side) :
          /\ tasks' = [tasks EXCEPT ![side][i].st = "done", ![side][i].ret = v]
          /\ evaluator' = [evaluator EXCEPT ![side] = Remember(@, tasks[side][i].id, v)]
    /\ permits' = Release(permits)
    /\ completion' = IF /\ completion = InOrder
                        /\ \E j \in 1..(i - 1) : tasks[side][j].st # "done"
                     THEN Inverted
                     ELSE completion
    /\ UNCHANGED <<library, stream, arguments, pc, gold_norm, pred_norm, gold_decisions,
                   predicted_decisions, result, metrics, prev>>

\* variant: gather keeps the exception to itself (return_exceptions=True)
GatherSwallowsFailure(at, side) == at

\* what the failure of one coroutine does to the run_judge awaiting gather:
\* gather re-raises at once and the except clause raises in turn
GatherOnFailure(at, side) == IF at = "await_" \o side THEN "failed" ELSE at

\* _call_fact_tool raises; the semaphore is released on the way out.  The
\* other coroutines of the gather are not cancelled.
Fail(side, i) ==
    /\ tasks[side][i].st = "inflight"
    /\ tasks' = [tasks EXCEPT ![side][i].st = "failed"]
    /\ permits' = Release(permits)
    /\ pc' = GatherOnFailure(pc, side)
    /\ UNCHANGED <<library, stream, inputs, gold_norm, pred_norm, gold_decisions,
                   predicted_decisions, result, metrics, completion, prev>>

\* variant: gather returns with the first coroutine that has returned
GatherReadyOnFirst(side_tasks) == \E i \in DOMAIN side_tasks : side_tasks[i].st = "done"

\* gather returns once every coroutine has returned
GatherReady(side_tasks) == \A i \in DOMAIN side_tasks : side_tasks[i].st = "done"

\* variant: in strict mode the declared counterparts are dropped
DecisionsInStrictMode(side_tasks) ==
    [id \in {side_tasks[i].id : i \in DOMAIN side_tasks} |->
        IF judge_config.require_all_fields_match
        THEN [status |-> "FN", matched |-> None]
        ELSE side_tasks[CHOOSE i \in DOMAIN side_tasks : side_tasks[i].id = id].ret]

\* the (fact_id, decision) pairs gather returns, in argument order, turned
\* into the decisions dict by the loop that follows
DecisionsFrom(side_tasks) ==
    [id \in {side_tasks[i].id : i \in {j \in DOMAIN side_tasks : side_tasks[j].st = "done"}} |->
        side_tasks[CHOOSE i \in DOMAIN side_tasks :
            /\ side_tasks[i].id = id /\ side_tasks[i].st = "done"
            /\ \A j \in DOMAIN side_tasks :
                  (side_tasks[j].id = id /\ side_tasks[j].st = "done") => j <= i].ret]

FinishGold ==
    /\ pc = "await_gold"
    /\ GatherReady(tasks.gold)
    /\ gold_decisions' = DecisionsFrom(tasks.gold)
    /\ pc' = "predicted"
    /\ UNCHANGED <<library, stream, inputs, gold_norm, pred_norm, tasks, permits, predicted_decisions,
                   result, metrics, completion, prev>>

FinishPredicted ==
    /\ pc = "await_predicted"
    /\ GatherReady(tasks.predicted)
    /\ predicted_decisions' = DecisionsFrom(tasks.predicted)
    /\ pc' = "reconcile"
    /\ UNCHANGED <<library, stream, inputs, gold_norm, pred_norm, tasks, permits, gold_decisions,
                   result, metrics, completion, prev>>

\* Lines 383-527: no await in them, so they run as one step.
ReconcileStep ==
    /\ pc = "reconcile"
    /\ LET st2 == ReconcilePasses(gold_norm, pred_norm, gold_decisions, predicted_decisions)
       IN  \E order \in Enumerations(st2.links) :
               result' = AssembleResult(gold_norm, pred_norm, st2, order)
    /\ pc' = "done"
    /\ UNCHANGED <<library, stream, inputs, gold_norm, pred_norm, tasks, permits, gold_decisions,
                   predicted_decisions, metrics, completion, prev>>

\* The caller scores the returned payload.
Score ==
    /\ pc = "done"
    /\ metrics' = [computed |-> TRUE,
                   metrics |-> compute_metrics(result),
                   confusion |-> compute_confusion_matrix(result)]
    /\ pc' = "scored"
    /\ UNCHANGED <<library, stream, inputs, gold_norm, pred_norm, tasks, permits, gold_decisions,
                   predicted_decisions, result, completion, prev>>

\* The caller invokes run_judge again with the same arguments after an
\* invocation that returned; the evaluator keeps the answers it has given.
Reinvoke ==
    /\ pc = "scored"
    /\ prev' = [set |-> TRUE, labels |-> Labels(result), completion |-> completion]
    /\ pc' = "idle"
    /\ tasks' = NoTasks
    /\ permits' = JUDGE_PARALLELISM
    /\ gold_decisions' = Empty
    /\ predicted_decisions' = Empty
    /\ result' = NoResult
    /\ metrics' = NoMetrics
    /\ completion' = InOrder
    /\ UNCHANGED <<library, stream, inputs, gold_norm, pred_norm>>

Next ==
    \/ Invoke
    \/ \E side \in Sides : StartGather(side)
    \/ \E side \in Sides : \E i \in DOMAIN tasks[side] : Acquire(side, i)
    \/ \E side \in Sides : \E i \in DOMAIN tasks[side] : Complete(side, i)
    \/ \E side \in Sides : \E i \in DOMAIN tasks[side] : Fail(side, i)
    \/ FinishGold
    \/ FinishPredicted
    \/ ReconcileStep
    \/ Score

NextRerun == Next \/ Reinvoke

\* the values judge_config["entity_types"] and the matching-rule keys take
ConfiguredTypes == {<<>>, <<"assets">>}

Configs == [require_all_fields_match : BOOLEAN, allow_partial_matches : {TRUE}]

\* The caller invokes run_judge again on the same facts with another
\* judge_config after an invocation that returned; the evaluator keeps the
\* answers it has given.  One such second invocation is followed.
Reconfigure ==
    /\ pc = "scored"
    /\ prev = NoPrev
    /\ prev' = [set |-> TRUE, labels |-> Labels(result), completion |-> completion,
                entity_types |-> entity_types, judge_config |-> judge_config]
    /\ \E types \in ConfiguredTypes, config \in Configs :
          /\ <<types, config>> # <<entity_types, judge_config>>
          /\ entity_types' = types
          /\ judge_config' = config
    /\ pc' = "idle"
    /\ tasks' = NoTasks
    /\ permits' = JUDGE_PARALLELISM
    /\ gold_decisions' = Empty
    /\ predicted_decisions' = Empty
    /\ result' = NoResult
    /\ metrics' = NoMetrics
    /\ UNCHANGED <<library, stream, gold_raw, predicted_raw, evaluator, gold_norm, pred_norm,
                   completion>>

NextConfig == Next \/ Reconfigure

\* -------------------------------------------- calls of synchronous functions
Calling(fn) == call.fn = fn /\ ~ret.returned

Returns(value) ==
    /\ ret' = [returned |-> TRUE, value |-> value]
    /\ UNCHANGED <<judge, stream, call>>

HasReturned(fn) == call.fn = fn /\ ret.returned

Normalize ==
    /\ Calling("_normalize_facts")
    /\ Returns(normalize_facts(call.raw_facts, call.prefix, call.allowed_entity_types))

Overlap ==
    /\ Calling("calculate_field_overlap")
    /\ Returns(calculate_field_overlap(call.extracted_data, call.schema_json))

Stability ==
    /\ Calling("calculate_schema_stability")
    /\ Returns(calculate_schema_stability(call.all_extracted_data))

Aggregate ==
    /\ Calling("aggregate_metrics")
    /\ Returns(aggregate_metrics(call.metrics_list))

\* ------------------------------------------- the evaluation's progress stream
\* the evaluation_id of the one evaluation followed
EvaluationId == 1

Consumers == 1..MaxConsumers

TerminalStatuses == {"completed", "failed"}

\* EvaluationProgress(): the fields the stream reads, as __init__ sets them
EvaluationProgress == [current_status |-> "initializing", error |-> None]

NoConsumer == [pc |-> "none", emitted |-> None]

\* no evaluation was created
NoStream ==
    /\ progress_tracker = {}
    /\ progress = EvaluationProgress
    /\ evaluation = "none"
    /\ consumers = [c \in Consumers |-> NoConsumer]

\* run_evaluation up to its first await: the progress object is created and
\* entered into progress_tracker.
Register ==
    /\ evaluation = "created"
    /\ progress' = EvaluationProgress
    /\ progress_tracker' = progress_tracker \cup {EvaluationId}
    /\ evaluation' = "initializing"
    /\ UNCHANGED <<judge, library, consumers>>

\* run_evaluation goes on to its next status text
SetStatus(from, to) ==
    /\ evaluation = from
    /\ progress' = [progress EXCEPT !.current_status = to]
    /\ evaluation' = to
    /\ UNCHANGED <<judge, library, progress_tracker, consumers>>

\* progress.current_status = "running"
SetRunning == SetStatus("initializing", "running")

\* progress.current_status = "Writing results to database..."
SetWriting == SetStatus("running", "Writing results to database...")

\* progress.current_status = "completed"
MarkCompleted == SetStatus("Writing results to database...", "completed")

\* an exception anywhere after the registration: the except clause
MarkFailed ==
    /\ evaluation \in {"initializing", "running", "Writing results to database..."}
    /\ progress' = [progress EXCEPT !.current_status = "failed", !.error = "error"]
    /\ evaluation' = "failed"
    /\ UNCHANGED <<judge, library, progress_tracker, consumers>>

\* GET /{evaluation_id}/stream: the response starts to iterate event_generator
Connect(c) ==
    /\ consumers[c].pc = "none"
    /\ consumers' = [consumers EXCEPT ![c].pc = "check"]
    /\ UNCHANGED <<judge, library, progress_tracker, progress, evaluation>>

\* The top of the loop up to the yield: the data of the tracked progress is
\* emitted, or a pending event when the tracker has no entry.
Poll(c) ==
    /\ consumers[c].pc = "check"
    /\ consumers' = IF EvaluationId \in progress_tracker
                    THEN [consumers EXCEPT ![c] = [pc |-> "yield_data",
                                                  emitted |-> progress.current_status]]
                    ELSE [consumers EXCEPT ![c] = [pc |-> "yield_pending",
                                                  emitted |-> "pending"]]
    /\ UNCHANGED <<judge, library, progress_tracker, progress, evaluation>>

\* where `del progress_tracker[evaluation_id]` leaves the generator: at the
\* break, or at the KeyError it raises when the entry is gone
AfterDel(tracker) == IF EvaluationId \in tracker THEN "ended" ELSE "KeyError"

\* The generator is resumed after the yield of the data: the status the
\* progress object has now decides whether the entry is deleted and the loop
\* left, or the generator sleeps.
ResumeData(c) ==
    /\ consumers[c].pc = "yield_data"
    /\ IF progress.current_status \in TerminalStatuses
       THEN /\ consumers' = [consumers EXCEPT ![c].pc = AfterDel(progress_tracker)]
            /\ progress_tracker' = progress_tracker \ {EvaluationId}
       ELSE /\ consumers' = [consumers EXCEPT ![c].pc = "sleep"]
            /\ progress_tracker' = progress_tracker
    /\ UNCHANGED <<judge, library, progress, evaluation>>

\* The generator is resumed after the yield of the pending event.
ResumePending(c) ==
    /\ consumers[c].pc = "yield_pending"
    /\ consumers' = [consumers EXCEPT ![c].pc = "sleep"]
    /\ UNCHANGED <<judge, library, progress_tracker, progress, evaluation>>

\* asyncio.sleep(1) returns
Wake(c) ==
    /\ consumers[c].pc = "sleep"
    /\ consumers' = [consumers EXCEPT ![c].pc = "check"]
    /\ UNCHANGED <<judge, library, progress_tracker, progress, evaluation>>

NextStream ==
    \/ Register
    \/ SetRunning
    \/ SetWriting
    \/ MarkCompleted
    \/ MarkFailed
    \/ \E c \in Consumers : Connect(c)
    \/ \E c \in Consumers : Poll(c)
    \/ \E c \in Consumers : ResumeData(c)
    \/ \E c \in Consumers : ResumePending(c)
    \/ \E c \in Consumers : Wake(c)

\* ------------------------------------------------------------------- inputs
RawTypes == {"Assets", "debts"}

SeqsUpTo(S, n) == UNION {[1..k -> S] : k \in 0..n}

\* the ids _normalize_facts generates for a list of `n` raw facts without ids
GeneratedIds(prefix, n) == {prefix \o ToString(k) : k \in 1..n}

Fresh ==
    /\ pc = "idle"
    /\ gold_norm = <<>>
    /\ pred_norm = <<>>
    /\ tasks = NoTasks
    /\ permits = JUDGE_PARALLELISM
    /\ gold_decisions = Empty
    /\ predicted_decisions = Empty
    /\ result = NoResult
    /\ metrics = NoMetrics
    /\ prev = NoPrev

NoAnswers == [gold |-> <<>>, predicted |-> <<>>]

\* no synchronous function is being called on its own
NoLibraryCall == call = NoCall /\ ret = NoReturn

\* run_judge is not being invoked
NoJudgeRun ==
    /\ gold_raw = <<>>
    /\ predicted_raw = <<>>
    /\ entity_types = <<>>
    /\ judge_config = DefaultConfig
    /\ evaluator = NoAnswers
    /\ completion = Untracked
    /\ Fresh

\* Short lists of facts without ids, of an in-scope and an out-of-scope type;
\* the evaluator has answered nothing yet.
Init ==
    /\ gold_raw \in SeqsUpTo([id : {None}, fact_type : RawTypes], MaxFacts)
    /\ predicted_raw \in SeqsUpTo([id : {None}, fact_type : RawTypes], MaxFacts - Len(gold_raw))
    /\ entity_types = <<"assets">>
    /\ judge_config = DefaultConfig
    /\ evaluator = NoAnswers
    /\ completion = Untracked
    /\ Fresh
    /\ NoLibraryCall
    /\ NoStream

Spec == Init /\ [][Next]_vars

\* Shorter lists, with run_judge invoked again and again on one input and
\* the order in which the requests complete tracked.
InitRerun ==
    /\ gold_raw \in SeqsUpTo([id : {None}, fact_type : RawTypes], MaxRerunFacts)
    /\ predicted_raw \in SeqsUpTo([id : {None}, fact_type : RawTypes], MaxRerunFacts - Len(gold_raw))
    /\ entity_types = <<"assets">>
    /\ judge_config = DefaultConfig
    /\ evaluator = NoAnswers
    /\ completion = InOrder
    /\ Fresh
    /\ NoLibraryCall
    /\ NoStream

SpecRerun == InitRerun /\ [][NextRerun]_vars

\* Very short lists, judged again and again under changing configurations.
InitConfig ==
    /\ gold_raw \in SeqsUpTo([id : {None}, fact_type : RawTypes], MaxConfigFacts)
    /\ predicted_raw \in SeqsUpTo([id : {None}, fact_type : RawTypes], MaxConfigFacts - Len(gold_raw))
    /\ entity_types \in ConfiguredTypes
    /\ judge_config \in Configs
    /\ evaluator = NoAnswers
    /\ completion = Untracked
    /\ Fresh
    /\ NoLibraryCall
    /\ NoStream

SpecConfig == InitConfig /\ [][NextConfig]_vars

\* Long lists, all in scope (no entity_types configured), and an evaluator
\* whose answers are settled: one that matches nothing, or one that matches
\* the i-th facts of the two sides.
NoMatchEvaluator(gold_ids, pred_ids) ==
    [gold |-> [id \in gold_ids |-> [status |-> "FN", matched |-> None]],
     predicted |-> [id \in pred_ids |-> [status |-> "FP", matched |-> None]]]

IndexOf(prefix, id, n) == CHOOSE k \in 1..n : id = prefix \o ToString(k)

DiagonalEvaluator(n, m) ==
    [gold |-> [id \in GeneratedIds("g", n) |->
                 [status |-> "TP", matched |-> "p" \o ToString(IndexOf("g", id, n))]],
     predicted |-> [id \in GeneratedIds("p", m) |->
                 [status |-> "TP", matched |-> "g" \o ToString(IndexOf("p", id, m))]]]

InitMany ==
    /\ \E n \in 0..MaxMany, m \in 0..MaxMany :
        /\ gold_raw = [k \in 1..n |-> [id |-> None, fact_type |-> "Assets"]]
        /\ predicted_raw = [k \in 1..m |-> [id |-> None, fact_type |-> "Assets"]]
        /\ evaluator \in {NoMatchEvaluator(GeneratedIds("g", n), GeneratedIds("p", m)),
                          DiagonalEvaluator(n, m)}
    /\ entity_types = <<>>
    /\ judge_config = DefaultConfig
    /\ completion = Untracked
    /\ Fresh
    /\ NoLibraryCall
    /\ NoStream

SpecMany == InitMany /\ [][Next]_vars

\* The event loop resumes run_judge whenever it can go on, lets a coroutine
\* that waits for the semaphore enter once a permit is free, and every
\* evaluator call returns or fails.
EventLoopRuns ==
    /\ WF_vars(Invoke \/ (\E side \in Sides : StartGather(side)) \/ FinishGold
                \/ FinishPredicted \/ ReconcileStep)
    /\ WF_vars(\E side \in Sides : \E i \in DOMAIN tasks[side] : Acquire(side, i))
    /\ WF_vars(\E side \in Sides : \E i \in DOMAIN tasks[side] :
                    Complete(side, i) \/ Fail(side, i))

\* One long list, all in scope, against a list of at most one fact, on
\* either side, and an evaluator that matches nothing.
InitLive ==
    /\ \E n \in 0..MaxLive, m \in 0..1 : \E long \in Sides :
        /\ gold_raw = [k \in 1..(IF long = "gold" THEN n ELSE m) |->
                          [id |-> None, fact_type |-> "Assets"]]
        /\ predicted_raw = [k \in 1..(IF long = "gold" THEN m ELSE n) |->
                          [id |-> None, fact_type |-> "Assets"]]
        /\ evaluator = NoMatchEvaluator(GeneratedIds("g", Len(gold_raw)),
                                        GeneratedIds("p", Len(predicted_raw)))
    /\ entity_types = <<>>
    /\ judge_config = DefaultConfig
    /\ completion = Untracked
    /\ Fresh
    /\ NoLibraryCall
    /\ NoStream

SpecLive == InitLive /\ [][Next]_vars /\ EventLoopRuns

\* Raw lists with explicit ids that repeat, that equal a suffixed id
\* ("a_1") or a generated one ("g2"), with entries without id and with
\* entries that are not dicts.
RawIds == {None, "a", "a_1", "g2"}

\* the raw type values: a known type, none (or the empty string) and a
\* string of spaces
RawFactTypes == {"Assets", None, "  "}

RawEntries == [id : RawIds, fact_type : RawFactTypes] \cup {NotADict}

InitNormalize ==
    /\ call \in [fn : {"_normalize_facts"}, raw_facts : SeqsUpTo(RawEntries, MaxRawLen),
                  prefix : {"g", "p"}, allowed_entity_types : {{"asset"}}]
    /\ ret = NoReturn
    /\ NoJudgeRun
    /\ NoStream

SpecNormalize == InitNormalize /\ [][Normalize]_vars

\* The JSON values of at most n nodes over the keys "a" and "b": scalars,
\* dicts of up to two keys and lists of up to two items, nested.
RECURSIVE Size(_)
RECURSIVE SizeOfValues(_, _)
SizeOfValues(map, keys) ==
    IF keys = {} THEN 0
    ELSE LET k == CHOOSE key \in keys : TRUE
         IN  Size(map[k]) + SizeOfValues(map, keys \ {k})

RECURSIVE SizeOfItems(_)
SizeOfItems(items) ==
    IF items = <<>> THEN 0 ELSE Size(Head(items)) + SizeOfItems(Tail(items))

Size(v) ==
    IF IsDictValue(v) THEN 1 + SizeOfValues(v.map, DOMAIN v.map)
    ELSE IF IsListValue(v) THEN 1 + SizeOfItems(v.items)
    ELSE 1

RECURSIVE Trees(_)
Trees(n) ==
    IF n = 0 THEN {}
    ELSE LET smaller == Trees(n - 1)
             pairs == {xy \in smaller \X smaller : Size(xy[1]) + Size(xy[2]) <= n - 1}
         IN  {Number, EmptyDict, EmptyList}
             \cup {List(<<x>>) : x \in smaller}
             \cup {List(<<xy[1], xy[2]>>) : xy \in pairs}
             \cup {Dict([k \in {key} |-> x]) : key \in {"a", "b"}, x \in smaller}
             \cup {Dict([k \in {"a", "b"} |-> IF k = "a" THEN xy[1] ELSE xy[2]]) : xy \in pairs}

\* extracted_data is a dict
Documents(n) == {d \in Trees(n) : IsDictValue(d)}

\* A schema that describes a document: an object with properties for a
\* dict, an array with items for a list, a primitive type for a scalar.
RECURSIVE SchemaFor(_)
SchemaFor(v) ==
    IF IsDictValue(v)
    THEN IF DOMAIN v.map = {} THEN Dict([type |-> Str("object")])
         ELSE Dict([type |-> Str("object"),
                    properties |-> Dict([k \in DOMAIN v.map |-> SchemaFor(v.map[k])])])
    ELSE IF IsListValue(v)
    THEN Dict([type |-> Str("array"),
               items |-> IF v.items = <<>> THEN EmptyDict ELSE SchemaFor(Head(v.items))])
    ELSE Dict([type |-> Str("number")])

\* {"$ref": path}
Ref(path) == Dict([k \in {"$ref"} |-> Str(path)])

Definitions ==
    Dict([Leaf |-> Dict([type |-> Str("string")]),
          Item |-> Dict([type |-> Str("object"),
                         properties |-> Dict([b |-> Dict([type |-> Str("number")])])]),
          Node |-> Dict([type |-> Str("object"),
                         properties |-> Dict([b |-> Ref("#/definitions/Node")])]),
          Loop |-> Ref("#/definitions/Loop")])

\* properties {...} next to the definitions
WithDefinitions(properties) == Dict([definitions |-> Definitions, properties |-> Dict(properties)])

\* Schemas that use references, allOf and anyOf, circular ones, and ones
\* whose parts have the wrong type.
SpecialSchemas ==
    { WithDefinitions([a |-> Ref("#/definitions/Leaf"),
                       b |-> Dict([type |-> Str("array"), items |-> Ref("#/definitions/Item")])]),
      WithDefinitions([a |-> Ref("#/definitions/Missing"), b |-> Ref("other.json#/b")]),
      WithDefinitions([a |-> Ref("#/definitions/Node")]),
      WithDefinitions([a |-> Ref("#/definitions/Loop")]),
      Dict(WithKey([definitions |-> Definitions], "$ref", Str("#/definitions/Loop"))),
      WithDefinitions([a |-> Dict([k \in {"$ref"} |-> Number])]),
      Dict([definitions |-> Definitions,
            allOf |-> List(<<Ref("#/definitions/Item"),
                             Dict([properties |-> Dict([a |-> Dict([type |-> Str("string")])])])>>)]),
      Dict([allOf |-> Number]),
      Dict([allOf |-> List(<<Dict([properties |-> Number])>>)]),
      Dict([properties |-> Dict([a |-> Dict([anyOf |-> List(<<Dict([type |-> Str("string")]),
                                                               Dict([type |-> Str("null")])>>)])])]),
      WithDefinitions([a |-> Dict([anyOf |-> List(<<Dict([type |-> Str("null")]),
                                                     Ref("#/definitions/Item")>>)])]),
      Dict([properties |-> List(<<Str("a")>>)]),
      Dict([properties |-> Dict([a |-> Dict([type |-> Str("array"), items |-> List(<<Number>>)]),
                                 b |-> Str("number")])]),
      List(<<Number>>) }

SchemaDocuments(n) == {SchemaFor(d) : d \in Documents(n)} \cup SpecialSchemas

\* The text of a schema document, whole or cut short (no JSON any more).
SchemaTexts(n) == [well_formed : BOOLEAN, document : SchemaDocuments(n)]

InitOverlap ==
    /\ call \in [fn : {"calculate_field_overlap"}, extracted_data : Documents(MaxNodes),
                  schema_json : SchemaTexts(MaxNodes - 1)]
    /\ ret = NoReturn
    /\ NoJudgeRun
    /\ NoStream

SpecOverlap == InitOverlap /\ [][Overlap]_vars

\* Extraction outputs: flat dicts over four field names, the same names
\* with nested values, and an output that is no dict at all.
FieldNames == {"name", "age", "city", "country"}

ExtractionOutputs ==
    {Dict([k \in names |-> Number]) : names \in SUBSET FieldNames}
    \cup {Dict([name |-> Dict([first |-> Number]), age |-> List(<<Number>>)]), Null}

InitStability ==
    /\ call \in [fn : {"calculate_schema_stability"},
                  all_extracted_data : SeqsUpTo(ExtractionOutputs, MaxOutputs)]
    /\ ret = NoReturn
    /\ NoJudgeRun
    /\ NoStream

SpecStability == InitStability /\ [][Stability]_vars

\* Per-run metrics of small counts, as compute_metrics builds them.
RunMetrics ==
    {ComputedMetrics(tp, fp, fn) : tp \in 0..MaxCount, fp \in 0..MaxCount, fn \in 0..MaxCount}

InitAggregate ==
    /\ call \in [fn : {"aggregate_metrics"}, metrics_list : SeqsUpTo(RunMetrics, MaxRuns)]
    /\ ret = NoReturn
    /\ NoJudgeRun
    /\ NoStream

SpecAggregate == InitAggregate /\ [][Aggregate]_vars

\* create_evaluation has created the task of run_evaluation; no stream
\* request has arrived yet.
InitStream ==
    /\ NoJudgeRun
    /\ NoLibraryCall
    /\ progress_tracker = {}
    /\ progress = EvaluationProgress
    /\ evaluation = "created"
    /\ consumers = [c \in Consumers |-> NoConsumer]

SpecStream == InitStream /\ [][NextStream]_vars

\* ------------------------------------------------------------------- claims
Returned == pc \in {"done", "scored"}

GoldOut == result.gold_facts
PredOut == result.predicted_facts

HasNote(kind) == \E k \in DOMAIN result.notes : result.notes[k].kind = kind

\* C1: after reconciliation every gold fact of the returned result has at
\* most one entry in matched_ids, whatever the two sides' verdicts were.
C1_GoldAtMostOneMatch ==
    Returned => \A i \in DOMAIN GoldOut : Len(GoldOut[i].matched_ids) <= 1

\* C1 witness: a result in which a gold fact had been linked to several
\* predicted facts and the fan-out collapse removed a link.
C1_Witness == Returned /\ HasNote("collapsed")

\* C2: in every returned result a gold fact is TP if its matched_ids is
\* non-empty and FN otherwise, a predicted fact TP if its matched_ids is
\* non-empty and FP otherwise; no other status (UNJUDGED) survives.
C2_StatusFollowsLinks ==
    Returned =>
        /\ \A i \in DOMAIN GoldOut :
              GoldOut[i].status = IF GoldOut[i].matched_ids # <<>> THEN "TP" ELSE "FN"
        /\ \A j \in DOMAIN PredOut :
              PredOut[j].status = IF PredOut[j].matched_ids # <<>> THEN "TP" ELSE "FP"

\* C2 witness: a result with a TP and an FN gold fact and a TP and an FP
\* predicted fact.
C2_Witness ==
    /\ Returned
    /\ \E i, j \in DOMAIN GoldOut : GoldOut[i].status = "TP" /\ GoldOut[j].status = "FN"
    /\ \E i, j \in DOMAIN PredOut : PredOut[i].status = "TP" /\ PredOut[j].status = "FP"

\* C3: in every returned result each id in a gold fact's matched_ids is the
\* id of an in-scope predicted fact of that result, and each id in a
\* predicted fact's matched_ids is the id of an in-scope gold fact of it,
\* whatever ids the verdicts declared.
C3_MatchedIdsInScope ==
    Returned =>
        /\ \A i \in DOMAIN GoldOut : \A k \in DOMAIN GoldOut[i].matched_ids :
              \E j \in DOMAIN PredOut :
                  PredOut[j].id = GoldOut[i].matched_ids[k] /\ PredOut[j].in_scope
        /\ \A j \in DOMAIN PredOut : \A k \in DOMAIN PredOut[j].matched_ids :
              \E i \in DOMAIN GoldOut :
                  GoldOut[i].id = PredOut[j].matched_ids[k] /\ GoldOut[i].in_scope

\* C3 witness: a result returned although a gold verdict said TP for the id
\* of an out-of-scope predicted fact and a predicted verdict said TP for an
\* id no gold fact has.
C3_Witness ==
    /\ Returned
    /\ \E g \in DOMAIN evaluator.gold :
          /\ evaluator.gold[g].status = "TP"
          /\ \E j \in DOMAIN pred_norm :
                pred_norm[j].id = evaluator.gold[g].matched /\ ~pred_norm[j].in_scope
    /\ \E p \in DOMAIN evaluator.predicted :
          /\ evaluator.predicted[p].status = "TP"
          /\ evaluator.predicted[p].matched # None
          /\ evaluator.predicted[p].matched \notin Ids(gold_norm)

\* C4: every out-of-scope gold fact ends FN with empty matched_ids and every
\* out-of-scope predicted fact ends FP with empty matched_ids, also when a
\* verdict names it as the counterpart of a match.
C4_OutOfScopeForced ==
    Returned =>
        /\ \A i \in DOMAIN GoldOut :
              ~GoldOut[i].in_scope =>
                  GoldOut[i].status = "FN" /\ GoldOut[i].matched_ids = <<>>
        /\ \A j \in DOMAIN PredOut :
              ~PredOut[j].in_scope =>
                  PredOut[j].status = "FP" /\ PredOut[j].matched_ids = <<>>

\* C4 witness: a result with an out-of-scope gold fact that a TP predicted
\* verdict named and an out-of-scope predicted fact that a TP gold verdict
\* named.
C4_Witness ==
    /\ Returned
    /\ \E i \in DOMAIN GoldOut : \E p \in DOMAIN evaluator.predicted :
          /\ ~GoldOut[i].in_scope
          /\ evaluator.predicted[p] = [status |-> "TP", matched |-> GoldOut[i].id]
    /\ \E j \in DOMAIN PredOut : \E g \in DOMAIN evaluator.gold :
          /\ ~PredOut[j].in_scope
          /\ evaluator.gold[g] = [status |-> "TP", matched |-> PredOut[j].id]

\* C5: with the inputs and every fact's verdict fixed, an invocation returns
\* the same status and matched_ids for every fact as the invocation before
\* it, in whatever order the requests of either completed.
C5_SameLabelsEveryOrder ==
    (Returned /\ prev.set) => Labels(result) = prev.labels

\* C5 witness: two invocations returned, in one the requests completed in
\* list order and in the other they did not, and the tie-break of the
\* fan-out collapse was used.
C5_Witness ==
    /\ Returned
    /\ prev.set
    /\ completion # prev.completion
    /\ HasNote("collapsed")

AnyFailed == \E side \in Sides : \E i \in DOMAIN tasks[side] : tasks[side][i].st = "failed"

\* C6: once a single evaluator request has failed, run_judge has failed as a
\* whole and there is no result, whatever the other requests returned.
C6_FailureFailsRun == AnyFailed => (pc = "failed" /\ result = NoResult)

\* C6 witness: one predicted-side request failed after every other request
\* of both sides had returned its verdict.
C6_Witness ==
    /\ tasks.gold # <<>>
    /\ \A i \in DOMAIN tasks.gold : tasks.gold[i].st = "done"
    /\ \E i \in DOMAIN tasks.predicted :
          /\ tasks.predicted[i].st = "failed"
          /\ \A j \in DOMAIN tasks.predicted \ {i} : tasks.predicted[j].st = "done"
          /\ DOMAIN tasks.predicted # {i}

InFlight ==
    Cardinality({t \in Sides \X (DOMAIN tasks.gold \cup DOMAIN tasks.predicted) :
                    t[2] \in DOMAIN tasks[t[1]] /\ tasks[t[1]][t[2]].st = "inflight"})

\* C7: at every moment the number of evaluator requests in flight, gold-side
\* and predicted-side together, is at most JUDGE_PARALLELISM.
C7_BoundedInFlight == InFlight <= JUDGE_PARALLELISM

\* C7 witness: JUDGE_PARALLELISM requests in flight while a further
\* coroutine waits for the semaphore.
C7_Witness ==
    /\ InFlight = JUDGE_PARALLELISM
    /\ \E side \in Sides : \E i \in DOMAIN tasks[side] : tasks[side][i].st = "waiting"

\* C8: for every returned result the TP count of compute_metrics (gold
\* facts) equals the TP count of compute_confusion_matrix (predicted facts).
C8_TpCountsAgree ==
    metrics.computed => metrics.metrics.tp_count = metrics.confusion.TP

InScopeOnly(normalized, ids) ==
    /\ Len(normalized) = Len(ids)
    /\ \A i \in DOMAIN normalized : normalized[i].id = ids[i] /\ normalized[i].in_scope

\* Scenario A: one in-scope gold fact g1 with verdict TP declaring p1, one
\* in-scope predicted fact p1 with verdict FP.
ScenarioA ==
    /\ InScopeOnly(gold_norm, <<"g1">>)
    /\ InScopeOnly(pred_norm, <<"p1">>)
    /\ evaluator.gold["g1"] = [status |-> "TP", matched |-> "p1"]
    /\ evaluator.predicted["p1"].status = "FP"

\* C9: in scenario A run_judge yields g1 FN and p1 FP, and compute_metrics
\* of the result yields tp=0, fp=1, fn=1, precision 0.0 and recall 0.0.
C9_ScenarioA ==
    (pc = "scored" /\ ScenarioA) =>
        /\ GoldOut[1].status = "FN"
        /\ PredOut[1].status = "FP"
        /\ metrics.metrics.tp_count = 0
        /\ metrics.metrics.fp_count = 1
        /\ metrics.metrics.fn_count = 1
        /\ metrics.metrics.precision = Zero
        /\ metrics.metrics.recall = Zero

\* C9 witness: scenario A judged and scored.
C9_Witness == pc = "scored" /\ ScenarioA

\* Scenario B: in-scope predicted facts p1 and p2, in this order, both with
\* verdict TP declaring the one in-scope gold fact g1.
ScenarioB ==
    /\ InScopeOnly(gold_norm, <<"g1">>)
    /\ InScopeOnly(pred_norm, <<"p1", "p2">>)
    /\ evaluator.predicted["p1"] = [status |-> "TP", matched |-> "g1"]
    /\ evaluator.predicted["p2"] = [status |-> "TP", matched |-> "g1"]

ScenarioBLabels ==
    /\ GoldOut[1].matched_ids = <<"p1">>
    /\ PredOut[1].matched_ids = <<"g1">>
    /\ PredOut[2].status = "FP"
    /\ PredOut[2].matched_ids = <<>>

\* C10 as stated: in scenario B, for any verdict of g1, the link (g1,p1) is
\* kept, p2 is FP and exactly one dedup note is recorded.
C10_OneNoteAnyVerdict ==
    (Returned /\ ScenarioB) => (ScenarioBLabels /\ Len(result.notes) = 1)

\* C10 amended: in scenario B, for any verdict of g1, the link (g1,p1) is
\* kept and p2 is FP; the dedup notes are the one collapse note for p2 when
\* g1's own verdict is TP, and the promotion note for g1 followed by that
\* collapse note when g1's own verdict is FN.
C10_NotesByVerdict ==
    (Returned /\ ScenarioB) =>
        /\ ScenarioBLabels
        /\ result.notes =
             IF evaluator.gold["g1"].status = "TP"
             THEN <<Note("collapsed", "g1", "p2")>>
             ELSE <<Note("promoted", "g1", "p1"), Note("collapsed", "g1", "p2")>>

\* C10 witness: scenario B judged with g1's own verdict FN.
C10_Witness == Returned /\ ScenarioB /\ evaluator.gold["g1"].status = "FN"

\* ------------------------------------------------------ claims C11 to C20
Less(p, q) == p[1] * q[2] < q[1] * p[2]

InScopeFacts(facts) == SelectSeq(facts, LAMBDA f : f.in_scope)

HasOutOfScope(facts) == \E i \in DOMAIN facts : ~facts[i].in_scope

\* compute_metrics of the result without its out-of-scope predicted facts
WithoutOutOfScopePredicted ==
    compute_metrics([gold_facts |-> GoldOut, predicted_facts |-> InScopeFacts(PredOut)])

\* compute_metrics of the result without its out-of-scope gold facts
WithoutOutOfScopeGold ==
    compute_metrics([gold_facts |-> InScopeFacts(GoldOut), predicted_facts |-> PredOut])

C11_Counts ==
    /\ metrics.metrics.fp_count =
          Cardinality({j \in DOMAIN PredOut : PredOut[j].status = "FP"})
    /\ metrics.metrics.tp_count =
          Cardinality({i \in DOMAIN GoldOut : GoldOut[i].status = "TP" /\ GoldOut[i].in_scope})
    /\ metrics.metrics.fn_count =
          Cardinality({i \in DOMAIN GoldOut : GoldOut[i].status = "FN" /\ GoldOut[i].in_scope})

C11_RecallUnaffected ==
    HasOutOfScope(GoldOut) => metrics.metrics.recall = WithoutOutOfScopeGold.recall

\* C11 as stated: fp_count counts every FP predicted fact, in scope or not,
\* tp_count and fn_count only the in-scope TP and FN gold facts; a result
\* with an out-of-scope predicted fact always has a lower precision than
\* without it, and out-of-scope gold facts never change recall.
C11_AlwaysLowersPrecision ==
    metrics.computed =>
        /\ C11_Counts
        /\ C11_RecallUnaffected
        /\ HasOutOfScope(PredOut) =>
              Less(metrics.metrics.precision, WithoutOutOfScopePredicted.precision)

\* C11 amended: the same counts and the same recall; a result with an
\* out-of-scope predicted fact has a lower precision than without it when
\* tp_count > 0, and precision 0.0 with and without it when tp_count = 0.
C11_LowersPrecisionUnlessZero ==
    metrics.computed =>
        /\ C11_Counts
        /\ C11_RecallUnaffected
        /\ HasOutOfScope(PredOut) =>
              IF metrics.metrics.tp_count > 0
              THEN Less(metrics.metrics.precision, WithoutOutOfScopePredicted.precision)
              ELSE /\ metrics.metrics.precision = Zero
                   /\ WithoutOutOfScopePredicted.precision = Zero

\* C11 witness: a scored result with a TP gold fact, an out-of-scope gold
\* fact and an out-of-scope predicted fact.
C11_Witness ==
    /\ metrics.computed
    /\ metrics.metrics.tp_count > 0
    /\ HasOutOfScope(GoldOut)
    /\ HasOutOfScope(PredOut)

\* the fraction `ratio` is numerator / denominator
IsQuotient(ratio, numerator, denominator) == ratio[1] * denominator = numerator * ratio[2]

\* C12: for a non-empty list of per-run metrics aggregate_metrics returns
\* the sums of the runs' tp, fp and fn counts, precision = sum tp / (sum tp +
\* sum fp), recall = sum tp / (sum tp + sum fn) (0.0 for a zero denominator)
\* and f1 = 2pr / (p + r) of these two, also where the mean of the per-run
\* ratios is another number.
C12_RatiosFromSummedCounts ==
    (HasReturned("aggregate_metrics") /\ call.metrics_list # <<>>) =>
        LET runs == call.metrics_list
            tp == SumOf(runs, "tp_count")
            fp == SumOf(runs, "fp_count")
            fn == SumOf(runs, "fn_count")
            p == ret.value.precision
            r == ret.value.recall
        IN  /\ ret.value.tp_count = tp
            /\ ret.value.fp_count = fp
            /\ ret.value.fn_count = fn
            /\ IF tp + fp = 0 THEN p = Zero ELSE IsQuotient(p, tp, tp + fp)
            /\ IF tp + fn = 0 THEN r = Zero ELSE IsQuotient(r, tp, tp + fn)
            /\ IF p = Zero /\ r = Zero THEN ret.value.f1 = Zero
               ELSE IsQuotient(ret.value.f1, 2 * p[1] * r[1], p[1] * r[2] + r[1] * p[2])

\* C12 witness: an aggregate of two runs whose precision and recall both
\* differ from the mean of the two runs' precision and recall.
C12_Witness ==
    /\ HasReturned("aggregate_metrics")
    /\ Len(call.metrics_list) = 2
    /\ ret.value.precision # MeanOf(call.metrics_list, "precision")
    /\ ret.value.recall # MeanOf(call.metrics_list, "recall")

\* C13: in every scored result precision and recall are floats (no division
\* by zero happened), precision is exactly 0.0 when tp + fp = 0 and recall
\* is exactly 0.0 when tp + fn = 0.
C13_ZeroDenominators ==
    metrics.computed =>
        LET m == metrics.metrics
        IN  /\ m.precision # ZeroDivisionError
            /\ m.recall # ZeroDivisionError
            /\ (m.tp_count + m.fp_count = 0) => m.precision = Zero
            /\ (m.tp_count + m.fn_count = 0) => m.recall = Zero

\* C13 witness: the result of run_judge for no facts at all, scored.
C13_Witness ==
    /\ metrics.computed
    /\ gold_raw = <<>>
    /\ predicted_raw = <<>>
    /\ metrics.metrics.tp_count + metrics.metrics.fp_count = 0
    /\ metrics.metrics.tp_count + metrics.metrics.fn_count = 0

RawIdsOf(raw_facts) == [k \in DOMAIN raw_facts |-> raw_facts[k].id]

IdsOf(facts) == [k \in DOMAIN facts |-> facts[k].id]

\* C14: in the list _normalize_facts returns no two facts have the same id,
\* whatever explicit, missing, duplicate or suffix-like ids the raw list had.
C14_UniqueIds ==
    HasReturned("_normalize_facts") =>
        \A i, j \in DOMAIN ret.value : i # j => ret.value[i].id # ret.value[j].id

\* C14 witness: the raw ids 'a', 'a', 'a_1' normalized to a, a_1, a_1_1.
C14_Witness ==
    /\ HasReturned("_normalize_facts")
    /\ RawIdsOf(call.raw_facts) = <<"a", "a", "a_1">>
    /\ IdsOf(ret.value) = <<"a", "a_1", "a_1_1">>

ExtractedPaths == flatten_dict_keys(call.extracted_data, "")
SchemaPaths == get_schema_fields(call.schema_json)

\* C15 as stated: whenever the leaf paths of the extracted data are the leaf
\* paths of the schema, jaccard is 1.0, also when both sets are empty.
C15_EqualSetsGiveOne ==
    (HasReturned("calculate_field_overlap") /\ ExtractedPaths = SchemaPaths) =>
        ret.value.jaccard = One

\* C15 amended: whenever the leaf paths of the extracted data are the leaf
\* paths of the schema, jaccard is 1.0 if there is such a path and 0.0 if
\* both sets are empty.
C15_EqualNonEmptySetsGiveOne ==
    (HasReturned("calculate_field_overlap") /\ ExtractedPaths = SchemaPaths) =>
        ret.value.jaccard = IF SchemaPaths # {} THEN One ELSE Zero

\* C15 witness: an overlap computed for a nested document and a schema
\* with the same two or more leaf paths.
C15_Witness ==
    /\ HasReturned("calculate_field_overlap")
    /\ ExtractedPaths = SchemaPaths
    /\ Cardinality(SchemaPaths) >= 2
    /\ ret.value.union_count = ret.value.intersection_count

\* C18: for a schema text that is no JSON, and for a schema that yields no
\* leaf path, calculate_field_overlap returns jaccard 0.0, intersection_count
\* 0 and no missing_fields.
C18_ZeroResultWithoutSchemaFields ==
    (HasReturned("calculate_field_overlap")
        /\ (~call.schema_json.well_formed \/ SchemaPaths = {})) =>
        /\ ret.value.jaccard = Zero
        /\ ret.value.intersection_count = 0
        /\ ret.value.missing_fields = {}

\* C18 witness: an overlap returned for a schema text that is no JSON and
\* an extraction with leaf paths.
C18_Witness ==
    /\ HasReturned("calculate_field_overlap")
    /\ ~call.schema_json.well_formed
    /\ ExtractedPaths # {}
    /\ ret.value.extra_fields = ExtractedPaths

\* the leaf-path sets of the outputs handed to calculate_schema_stability
OutputPaths == {flatten_dict_keys(call.all_extracted_data[i], "") : i \in DOMAIN call.all_extracted_data}

\* the paths that are in every set of S
InAll(S) == {path \in UNION S : \A fs \in S : path \in fs}

\* C16 as stated: for N >= 1 outputs the stability is 1.0 when all N have
\* the same leaf-path set and 0.0 when no path is common to all N.
C16_IdenticalOneDisjointZero ==
    (HasReturned("calculate_schema_stability") /\ call.all_extracted_data # <<>>) =>
        /\ Cardinality(OutputPaths) = 1 => ret.value = One
        /\ InAll(OutputPaths) = {} => ret.value = Zero

\* C16 amended: the stability is 1.0 when the outputs that have a leaf path
\* at all are at least one and all have the same leaf-path set, and 0.0
\* when no path is common to all of those outputs.
C16_AmongNonEmptyOutputs ==
    HasReturned("calculate_schema_stability") =>
        /\ Cardinality(OutputPaths \ {{}}) = 1 => ret.value = One
        /\ InAll(OutputPaths \ {{}}) = {} => ret.value = Zero

\* C16 witness: stability 1.0 returned for three outputs, two with one and
\* the same set of two paths and one without any path.
C16_Witness ==
    /\ HasReturned("calculate_schema_stability")
    /\ Len(call.all_extracted_data) = 3
    /\ Cardinality(OutputPaths) = 2
    /\ {} \in OutputPaths
    /\ \E fs \in OutputPaths : Cardinality(fs) = 2
    /\ ret.value = One

\* C17: the stability is |intersection| / |union| of the non-empty leaf-path
\* sets of the outputs, and 0.0 when there is no non-empty one.
C17_IntersectionOverUnion ==
    HasReturned("calculate_schema_stability") =>
        LET kept == OutputPaths \ {{}}
        IN  IF kept = {} THEN ret.value = Zero
            ELSE IsQuotient(ret.value, Cardinality(InAll(kept)), Cardinality(UNION kept))

FlatOutput(names) == Dict([k \in names |-> Number])

\* C17 witness: scenario D, {name,age,city}, {name,age,country},
\* {name,age,city}, returned 2/4.
C17_Witness ==
    /\ HasReturned("calculate_schema_stability")
    /\ call.all_extracted_data = <<FlatOutput({"name", "age", "city"}),
                                   FlatOutput({"name", "age", "country"}),
                                   FlatOutput({"name", "age", "city"})>>
    /\ ret.value = Ratio(2, 4)

\* the position of the fact with this id in a list of facts
FactOf(facts, id) == CHOOSE i \in DOMAIN facts : facts[i].id = id

InScopeIds(normalized) == Ids(Scoped(normalized))

\* the result has no link between gold fact gid and predicted fact pid
Unlinked(gid, pid) ==
    /\ \A k \in DOMAIN GoldOut[FactOf(GoldOut, gid)].matched_ids :
          GoldOut[FactOf(GoldOut, gid)].matched_ids[k] # pid
    /\ \A k \in DOMAIN PredOut[FactOf(PredOut, pid)].matched_ids :
          PredOut[FactOf(PredOut, pid)].matched_ids[k] # gid

\* gold fact gid has verdict TP declaring the in-scope predicted fact pid,
\* whose own verdict is FP
DowngradeCase(gid, pid) ==
    /\ gid \in InScopeIds(gold_norm)
    /\ pid \in InScopeIds(pred_norm)
    /\ evaluator.gold[gid] = [status |-> "TP", matched |-> pid]
    /\ evaluator.predicted[pid].status = "FP"

\* C19: for every in-scope gold fact g whose verdict is TP declaring an
\* in-scope predicted fact p whose own verdict is FP, the returned result
\* has no link between g and p and g's status is FN, whatever the verdicts
\* of the other facts are.
C19_DowngradeEndsFN ==
    Returned =>
        \A gid \in InScopeIds(gold_norm) : \A pid \in InScopeIds(pred_norm) :
            DowngradeCase(gid, pid) =>
                /\ Unlinked(gid, pid)
                /\ GoldOut[FactOf(GoldOut, gid)].status = "FN"

\* the part of C19 that concerns the link alone
C19_LinkRemoved ==
    Returned =>
        \A gid \in InScopeIds(gold_norm) : \A pid \in InScopeIds(pred_norm) :
            DowngradeCase(gid, pid) => Unlinked(gid, pid)

\* a downgraded gold fact that another predicted fact declares as its match
C19_DowngradedYetTP ==
    /\ Returned
    /\ \E gid \in InScopeIds(gold_norm) : \E pid \in InScopeIds(pred_norm) :
          /\ DowngradeCase(gid, pid)
          /\ HasNote("downgraded")
          /\ GoldOut[FactOf(GoldOut, gid)].status = "TP"

\* predicted fact pid has verdict TP declaring the in-scope gold fact gid,
\* whose own verdict is not TP
PromotionCase(gid, pid) ==
    /\ gid \in InScopeIds(gold_norm)
    /\ pid \in InScopeIds(pred_norm)
    /\ evaluator.predicted[pid] = [status |-> "TP", matched |-> gid]
    /\ evaluator.gold[gid].status # "TP"

\* C20: for every in-scope predicted fact p whose verdict is TP declaring an
\* in-scope gold fact g whose own verdict is not TP, the returned result has
\* g's status TP, whatever the verdicts of the other facts are and whatever
\* counterpart g itself declared.
C20_PromotionEndsTP ==
    Returned =>
        \A gid \in InScopeIds(gold_norm) : \A pid \in InScopeIds(pred_norm) :
            PromotionCase(gid, pid) => GoldOut[FactOf(GoldOut, gid)].status = "TP"

\* C20 witness: a promoted gold fact whose own verdict declared another
\* in-scope predicted fact, which labeled itself FP; both the promotion and
\* the downgrade pass have acted on it.
C20_Witness ==
    /\ Returned
    /\ \E gid \in InScopeIds(gold_norm) : \E pid, other \in InScopeIds(pred_norm) :
          /\ PromotionCase(gid, pid)
          /\ other # pid
          /\ evaluator.gold[gid].matched = other
          /\ evaluator.predicted[other].status = "FP"
          /\ result.notes = <<Note("promoted", gid, pid), Note("downgraded", gid, other)>>
          /\ GoldOut[FactOf(GoldOut, gid)].matched_ids = <<pid>>

\* ------------------------------------------------------ claims C21 to C30
\* match_links after promotion and downgrade, before the fan-out collapse
LinksBeforeCollapse ==
    ReconcilePasses(gold_norm, pred_norm, gold_decisions, predicted_decisions).links

\* the predicted facts gold fact gid is linked to before the collapse
LinkedBeforeCollapse(gid) == {link[2] : link \in {l \in LinksBeforeCollapse : l[1] = gid}}

\* the gold facts predicted fact pid is linked to before the collapse
GoldLinkedBeforeCollapse(pid) == {link[1] : link \in {l \in LinksBeforeCollapse : l[2] = pid}}

\* the one of these predicted facts that comes first in the predicted input
Earliest(pids) ==
    CHOOSE p \in pids : \A q \in pids : FactOf(pred_norm, p) <= FactOf(pred_norm, q)

\* C21: when, after promotion and downgrade, a gold fact is linked to more
\* than one predicted fact, the one link left in its matched_ids is to the
\* linked predicted fact that is earliest in the predicted input order,
\* whatever the iteration order of the link set.
C21_EarliestLinkKept ==
    Returned =>
        \A gid \in InScopeIds(gold_norm) :
            Cardinality(LinkedBeforeCollapse(gid)) > 1 =>
                GoldOut[FactOf(GoldOut, gid)].matched_ids =
                    <<Earliest(LinkedBeforeCollapse(gid))>>

\* C21 witness: a gold fact linked to the second and the third predicted
\* fact before the collapse returns linked to the second.
C21_Witness ==
    /\ Returned
    /\ Len(pred_norm) = 3
    /\ \E gid \in InScopeIds(gold_norm) :
          /\ LinkedBeforeCollapse(gid) = {pred_norm[2].id, pred_norm[3].id}
          /\ GoldOut[FactOf(GoldOut, gid)].matched_ids = <<pred_norm[2].id>>

\* the ids a fact of the result is linked to
MatchedOf(facts, id) ==
    {facts[FactOf(facts, id)].matched_ids[k] : k \in DOMAIN facts[FactOf(facts, id)].matched_ids}

\* the fan-out collapse removed the link between gid and pid
CollapseLoser(gid, pid) ==
    /\ pid \in LinkedBeforeCollapse(gid)
    /\ pid \notin MatchedOf(GoldOut, gid)

\* C22: every predicted fact whose link to a gold fact is removed by the
\* fan-out collapse has status FP in the returned result, also when it is
\* linked to another gold fact.
C22_CollapseLoserEndsFP ==
    Returned =>
        \A gid \in InScopeIds(gold_norm) : \A pid \in InScopeIds(pred_norm) :
            CollapseLoser(gid, pid) => PredOut[FactOf(PredOut, pid)].status = "FP"

\* the part of C22 that holds: a collapse loser that no other gold fact is
\* linked to ends FP
C22_LoserOfItsOnlyGoldEndsFP ==
    Returned =>
        \A gid \in InScopeIds(gold_norm) : \A pid \in InScopeIds(pred_norm) :
            (CollapseLoser(gid, pid) /\ GoldLinkedBeforeCollapse(pid) = {gid}) =>
                PredOut[FactOf(PredOut, pid)].status = "FP"

\* C23: after reconciliation every fact of the returned result, gold or
\* predicted, has at most one entry in matched_ids, for every combination
\* of verdicts.
C23_EveryFactAtMostOneMatch ==
    Returned =>
        /\ \A i \in DOMAIN GoldOut : Len(GoldOut[i].matched_ids) <= 1
        /\ \A j \in DOMAIN PredOut : Len(PredOut[j].matched_ids) <= 1

\* a request of this side has not returned yet
Pending(side) == \E i \in DOMAIN tasks[side] : tasks[side][i].st \in {"waiting", "inflight"}

\* requests of this side are with the evaluator
InFlightOf(side) == {i \in DOMAIN tasks[side] : tasks[side][i].st = "inflight"}

\* C24 as stated: the two passes run in parallel, so while gold-side
\* requests are pending the requests for the in-scope predicted facts have
\* been handed to the scheduler as well and start as permits allow.
C24_PassesInParallel ==
    (Pending("gold") /\ Scoped(pred_norm) # <<>>) => tasks.predicted # <<>>

\* C24 amended: the two passes run one after the other; a predicted-side
\* request exists (waiting, in flight or returned) only once every
\* gold-side request has returned its verdict, and within a pass the
\* requests in flight are bounded by JUDGE_PARALLELISM alone.
C24_GoldPassThenPredictedPass ==
    /\ tasks.predicted # <<>> => \A i \in DOMAIN tasks.gold : tasks.gold[i].st = "done"
    /\ Pending("gold") => InFlightOf("predicted") = {}

\* C24 witness: every gold-side request has returned and predicted-side
\* requests fill the semaphore, a further one waiting.
C24_Witness ==
    /\ tasks.gold # <<>>
    /\ \A i \in DOMAIN tasks.gold : tasks.gold[i].st = "done"
    /\ Cardinality(InFlightOf("predicted")) = JUDGE_PARALLELISM
    /\ \E i \in DOMAIN tasks.predicted : tasks.predicted[i].st = "waiting"

\* status and matched_ids of every fact of a payload
StatusAndMatches(payload) ==
    [gold_facts |-> [i \in DOMAIN payload.gold_facts |->
                        <<payload.gold_facts[i].id, payload.gold_facts[i].status,
                          payload.gold_facts[i].matched_ids>>],
     predicted_facts |-> [j \in DOMAIN payload.predicted_facts |->
                        <<payload.predicted_facts[j].id, payload.predicted_facts[j].status,
                          payload.predicted_facts[j].matched_ids>>]]

\* run_judge returned for the second time or later, the last time under
\* another configuration
Reconfigured == Returned /\ prev.set

\* C25 as stated: two invocations on the same facts with the same verdict
\* for each fact but different configurations, entity_types included,
\* return the same status and matched_ids for every fact.
C25_ConfigNeverMatters ==
    Reconfigured => StatusAndMatches(result) = StatusAndMatches(prev.labels)

\* C25 amended: two such invocations return the same status and
\* matched_ids for every fact when their entity_types allow the same
\* types, whatever the matching-rule keys are; entity_types decides which
\* facts are in scope.
C25_OnlyEntityTypesMatter ==
    (Reconfigured /\ allowed_entity_types(entity_types) = allowed_entity_types(prev.entity_types))
        => StatusAndMatches(result) = StatusAndMatches(prev.labels)

\* C25 witness: a result with a TP, returned again under the same
\* entity_types and other matching rules.
C25_Witness ==
    /\ Reconfigured
    /\ entity_types = prev.entity_types
    /\ judge_config # prev.judge_config
    /\ \E i \in DOMAIN GoldOut : GoldOut[i].status = "TP"

\* the facts _normalize_facts was called with that are dicts, which are
\* the ones it returns a fact for, in order
DictsOf(raw_facts) == SelectSeq(raw_facts, IsDict)

\* C26: every fact _normalize_facts returns has a non-empty fact_type: a
\* missing or empty type yields "unknown" and no raw type value yields the
\* empty string.
C26_FactTypeNeverEmpty ==
    HasReturned("_normalize_facts") =>
        \A i \in DOMAIN ret.value :
            /\ ret.value[i].fact_type # ""
            /\ DictsOf(call.raw_facts)[i].fact_type = None => ret.value[i].fact_type = "unknown"

\* the part of C26 that holds: a missing or empty type yields "unknown"
C26_MissingTypeIsUnknown ==
    HasReturned("_normalize_facts") =>
        \A i \in DOMAIN ret.value :
            DictsOf(call.raw_facts)[i].fact_type = None => ret.value[i].fact_type = "unknown"

\* C27: in every returned result the links are symmetric: predicted id p is
\* in gold fact g's matched_ids if and only if gold id g is in predicted
\* fact p's matched_ids.
C27_LinksSymmetric ==
    Returned =>
        \A gid \in Ids(GoldOut) : \A pid \in Ids(PredOut) :
            pid \in MatchedOf(GoldOut, gid) <=> gid \in MatchedOf(PredOut, pid)

\* C27 witness: a result in which one predicted fact is linked to two gold
\* facts, returned after the fan-out collapse removed a link.
C27_Witness ==
    /\ Returned
    /\ HasNote("collapsed")
    /\ \E j \in DOMAIN PredOut : Len(PredOut[j].matched_ids) = 2

\* C27 witness of the other kind: a gold verdict TP declares an
\* out-of-scope predicted fact, and the result has a link.
C27_WitnessOutOfScope ==
    /\ Returned
    /\ \E gid \in InScopeIds(gold_norm) : \E j \in DOMAIN pred_norm :
          /\ ~pred_norm[j].in_scope
          /\ evaluator.gold[gid] = [status |-> "TP", matched |-> pred_norm[j].id]
    /\ \E i \in DOMAIN GoldOut : GoldOut[i].matched_ids # <<>>

\* the gold facts in scope whose verdict is TP declaring predicted fact pid
DeclaringTP(pid) ==
    {gid \in InScopeIds(gold_norm) : evaluator.gold[gid] = [status |-> "TP", matched |-> pid]}

\* C28: an in-scope predicted fact whose own verdict is FP ends with status
\* FP and empty matched_ids, however many gold facts have verdict TP
\* declaring it.
C28_SelfDeclaredFPStaysFP ==
    Returned =>
        \A pid \in InScopeIds(pred_norm) :
            evaluator.predicted[pid].status = "FP" =>
                /\ PredOut[FactOf(PredOut, pid)].status = "FP"
                /\ PredOut[FactOf(PredOut, pid)].matched_ids = <<>>

\* C28 witness: a predicted fact with verdict FP that two gold facts with
\* verdict TP declare, in a returned result.
C28_Witness ==
    /\ Returned
    /\ \E pid \in InScopeIds(pred_norm) :
          /\ evaluator.predicted[pid].status = "FP"
          /\ Cardinality(DeclaringTP(pid)) = 2

Finished == pc \in {"done", "scored", "failed"}

NoneWaiting == \A side \in Sides : \A i \in DOMAIN tasks[side] : tasks[side][i].st # "waiting"

\* C29: if every evaluator call eventually returns or fails, run_judge
\* eventually finishes (returns a result or raises) for any number of
\* in-scope facts, and no request waits for a permit forever.
C29_EventuallyFinishes == <>Finished /\ <>[]NoneWaiting

\* C29 witness: run_judge returned on a side of more in-scope facts than
\* the semaphore has permits.
C29_Witness ==
    /\ pc = "done"
    /\ Len(tasks.gold) > JUDGE_PARALLELISM

\* C30 as stated, for the runs that stop somewhere: whatever the number of
\* consumers, the removal of the tracker entry never fails because another
\* consumer removed it, and a consumer that ended has emitted the terminal
\* status.
C30_ConsumersEndCleanly ==
    \A c \in Consumers :
        /\ consumers[c].pc # "KeyError"
        /\ consumers[c].pc = "ended" => consumers[c].emitted \in TerminalStatuses

\* the removal by itself: no consumer meets a KeyError
C30_RemovalNeverFails == \A c \in Consumers : consumers[c].pc # "KeyError"

\* a consumer that ended emitted the terminal status
C30_EndedAfterTerminalStatus ==
    \A c \in Consumers :
        consumers[c].pc = "ended" => consumers[c].emitted \in TerminalStatuses

\* a consumer polls after the entry was removed: it is told "pending" about
\* an evaluation that is over
C30_PendingAfterTheEnd ==
    \E c \in Consumers :
        /\ consumers[c].emitted = "pending"
        /\ evaluation \in TerminalStatuses

====
